---- MODULE Spec2Model ----
(***************************************************************************)
(* APRSwx: the APRS-IS connection service                                  *)
(* (backend/websockets/aprs_service.py, class APRSISConnectionService).    *)
(*                                                                         *)
(* The service object is shared by caller threads (connect, disconnect run *)
(* in executor threads, consumers.py run_in_thread) and by the background  *)
(* worker threads connect() starts.  Every read of a field of the service  *)
(* object (self.socket, self.should_disconnect, ...) is a read of the      *)
(* shared variable at the moment the statement runs.                       *)
(***************************************************************************)
EXTENDS Integers, Sequences, FiniteSets, TLC

(* ------------------------------ bounds --------------------------------- *)
\* number of connect() calls of a behaviour that pass the guard and start a
\* worker thread
MaxConnects == 2

(* --------------------------- program constants ------------------------- *)
\* for _ in range(5): the handshake reads at most five responses
HandshakeReads == 5

(* ------------------------------ strings -------------------------------- *)
\* A Python str is a sequence of one-character strings.
LowerChars == <<"a","b","c","d","e","f","g","h","i","j","k","l","m",
                "n","o","p","q","r","s","t","u","v","w","x","y","z">>
UpperChars == <<"A","B","C","D","E","F","G","H","I","J","K","L","M",
                "N","O","P","Q","R","S","T","U","V","W","X","Y","Z">>
WhiteChars == {" ", "\r", "\n", "\t"}

ToLower(c) == IF \E i \in DOMAIN UpperChars : UpperChars[i] = c
              THEN LowerChars[CHOOSE i \in DOMAIN UpperChars : UpperChars[i] = c]
              ELSE c
ToUpper(c) == IF \E i \in DOMAIN LowerChars : LowerChars[i] = c
              THEN UpperChars[CHOOSE i \in DOMAIN LowerChars : LowerChars[i] = c]
              ELSE c
\* str.lower(), str.upper()
Lower(s) == [i \in DOMAIN s |-> ToLower(s[i])]
Upper(s) == [i \in DOMAIN s |-> ToUpper(s[i])]

\* str.strip(): leading and trailing whitespace removed
Strip(s) ==
    LET nonWhite == {i \in DOMAIN s : s[i] \notin WhiteChars}
    IN  IF nonWhite = {} THEN <<>>
        ELSE LET lo == CHOOSE i \in nonWhite : \A j \in nonWhite : i <= j
                 hi == CHOOSE i \in nonWhite : \A j \in nonWhite : j <= i
             IN  SubSeq(s, lo, hi)

\* sub in s
Contains(s, sub) ==
    \E i \in 0..(Len(s) - Len(sub)) : SubSeq(s, i + 1, i + Len(sub)) = sub

(* --------------------------- Python values ----------------------------- *)
None == [py |-> "None"]
PyInt(n) == [py |-> "int", i |-> n]
PyStr(s) == [py |-> "str", s |-> s]

\* the truth value of a Python str or list: empty is false
Truthy(x) == Len(x) > 0

(* --------------------------- input samples ----------------------------- *)
CS_W1AW   == <<"W","1","A","W">>
NOCALL    == <<"N","O","C","A","L","L">>
CS_nocall == <<"n","o","c","a","l","l">>
CS_N0CALL == <<"N","0","C","A","L","L">>
CS_Empty  == <<>>
Location  == [latitude |-> 39, longitude |-> -104]

\* user_settings dictionaries handed to connect(); a key a dictionary lacks
\* is a field the record lacks
ValidSettings == [callsign |-> CS_W1AW, passcode |-> PyInt(12345), location |-> Location]
UserSettings ==
    { ValidSettings,
      [callsign |-> CS_nocall, passcode |-> PyInt(12345), location |-> Location],
      [callsign |-> CS_Empty,  passcode |-> PyInt(12345), location |-> Location],
      [passcode |-> PyInt(12345), location |-> Location],
      [callsign |-> CS_N0CALL, passcode |-> PyInt(-1), location |-> Location],
      [callsign |-> CS_N0CALL, passcode |-> PyInt(12345), location |-> Location],
      [callsign |-> CS_W1AW,   passcode |-> PyStr(<<"1","2","3","4","5">>), location |-> Location] }

\* what one recv(1024).decode() of the handshake can return
R_Verified   == <<"#"," ","l","o","g","r","e","s","p"," ","W","1","A","W"," ","v","e","r","i","f","i","e","d","\r","\n">>
R_Unverified == <<"#"," ","l","o","g","r","e","s","p"," ","W","1","A","W"," ","u","n","v","e","r","i","f","i","e","d","\r","\n">>
R_Logresp    == <<"#"," ","L","O","G","R","E","S","P"," ","W","1","A","W","\r","\n">>
R_Banner     == <<"#"," ","a","p","r","s","c"," ","2",".","1","\r","\n">>
R_Blank      == <<"\r","\n">>
R_Empty      == <<>>
Responses == {R_Verified, R_Unverified, R_Logresp, R_Banner, R_Blank, R_Empty}

W_verified   == <<"v","e","r","i","f","i","e","d">>
W_unverified == <<"u","n","v","e","r","i","f","i","e","d">>
W_logresp    == <<"l","o","g","r","e","s","p">>
W_hlogresp   == <<"#"," ","l","o","g","r","e","s","p">>

(* ------------------------------- state --------------------------------- *)
VARIABLES
    is_connected,       \* self.is_connected
    should_disconnect,  \* self.should_disconnect
    current_settings,   \* self.current_settings: None or a settings dictionary
    socket,             \* self.socket: NoSocket (None) or the socket object it refers to
    connection_thread,  \* self.connection_thread: NoThread (None) or a worker
    wk,                 \* the worker threads: position and local variables
    socks,              \* the socket objects, named by the worker that created them
    status,             \* the latest connection_status message sent to group
                        \* 'aprs_packets' (NoStatus before the first)
    dpc,                \* position of the disconnect() call in progress
    opened,             \* socket.socket() calls made so far
    written,            \* the login lines sent on each socket so far
    \* _connection_worker, the login line of one call
    loginIn,            \* self.current_settings
    loginOut,           \* the line handed to socket.send (Pending before it is)
    \* _packet_loop, the framing of the relay's stream
    relay,              \* the bytes the relay has sent and recv has not returned yet
    received,           \* the bytes recv has returned so far
    buffer,             \* the local variable buffer
    handed,             \* the lines handed to _process_packet so far
    reading,            \* the loop is running
    \* APRSParser.parse_packet, one call
    decoderIn,          \* the argument raw_packet
    decoderOut,         \* how the call ended (Pending before it has)
    \* _process_packet, the store and the channel layer
    packetTable,        \* the rows of APRSPacket, in the order of their ids
    stationTable,       \* the rows of Station
    groupSent,          \* the messages handed to channel_layer.group_send, in order
    clock,              \* timezone.now()
    processed,          \* the lines _process_packet was called with, and when
    packetLoop,         \* the read loop that calls _process_packet: running, ended
    \* the WebSocket consumers, the Subscription table and the channel layer
    consumer,           \* each consumer: not connected yet, open (of a class), closed
    groups,             \* channel layer: the channels of each group
    inbox,              \* channel layer: the messages waiting for each channel
    delivered,          \* the events each consumer has sent to its client
    subscriptions,      \* the rows of Subscription
    published           \* the events handed to group_send so far

managerVars == <<is_connected, should_disconnect, current_settings, socket,
                 connection_thread, wk, socks, status, dpc, opened, written>>
framingVars == <<relay, received, buffer, handed, reading>>
decoderVars == <<decoderIn, decoderOut>>
pipelineVars == <<packetTable, stationTable, groupSent, clock, processed,
                  packetLoop>>
broadcastVars == <<consumer, groups, inbox, delivered, subscriptions, published>>
loginVars == <<loginIn, loginOut>>
vars == <<managerVars, loginVars, framingVars, decoderVars, pipelineVars,
          broadcastVars>>
\* what a step of the connection manager leaves alone
outsideManager == <<loginVars, framingVars, decoderVars, pipelineVars, broadcastVars>>
\* what a step of the loop leaves alone
outsideFraming == <<managerVars, loginVars,
                     decoderVars, pipelineVars, broadcastVars>>
\* what a call of the decoder leaves alone
outsideDecoder == <<managerVars, loginVars,
                     framingVars, pipelineVars, broadcastVars>>
\* what a step of a consumer or of the channel layer leaves alone
outsideBroadcast == <<managerVars, loginVars,
                     framingVars, decoderVars, pipelineVars>>
\* what the building of the login line leaves alone
outsideLogin == <<managerVars, framingVars, decoderVars, pipelineVars,
                  broadcastVars>>
\* what a call of _process_packet leaves alone
outsidePipeline == <<managerVars, loginVars,
                     framingVars, decoderVars, broadcastVars>>

Workers == 1..MaxConnects
NoSocket == 0
NoThread == 0
NoStatus == [sent |-> FALSE]

\* A thread not started yet, and the local variables of _connection_worker
\* before they are assigned. Besides the locals (callsign, passcode) a
\* worker carries a record of its
\* own history: args (the credentials its connect() call was given, kept
\* until the worker opens a socket), first / heard / login (how its
\* handshake went), cause (why it left the try block) and sent (the status
\* message it sent).
IdleWorker ==
    [pc |-> "unspawned", args |-> "none",
     callsign |-> <<>>, passcode |-> None,
     first |-> "none", heard |-> "none", login |-> "none",
     cause |-> "none", sent |-> "none"]

ManagerInit ==
    /\ is_connected = FALSE
    /\ should_disconnect = FALSE
    /\ current_settings = None
    /\ socket = NoSocket
    /\ connection_thread = NoThread
    /\ wk = [w \in Workers |-> IdleWorker]
    /\ socks = [w \in Workers |-> "none"]
    /\ status = NoStatus
    /\ dpc = "idle"
    /\ opened = 0
    /\ written = [w \in Workers |-> 0]

\* no stream is being framed
FramingOff ==
    /\ relay = <<>>
    /\ received = <<>>
    /\ buffer = <<>>
    /\ handed = <<>>
    /\ reading = FALSE

\* no call of the decoder
Pending == [pending |-> TRUE]
\* no login line is being built
LoginOff ==
    /\ loginIn = None
    /\ loginOut = Pending

DecoderOff ==
    /\ decoderIn = <<>>
    /\ decoderOut = Pending

\* an empty store, nothing published
PipelineOff ==
    /\ packetTable = <<>>
    /\ stationTable = {}
    /\ groupSent = <<>>
    /\ clock = 0
    /\ processed = <<>>
    /\ packetLoop = "running"

\* the consumers of the model, the groups they join, the topics and filters
\* they subscribe with
Consumers == {"c1", "c2"}
Groups == {"aprs_packets", "stations"}
Topics == {"packets", "stations"}
Filters == {"{}", "{callsigns}"}

\* no consumer has connected, nothing is subscribed or published
BroadcastOff ==
    /\ consumer = [c \in Consumers |-> [state |-> "new", group_name |-> "none"]]
    /\ groups = [g \in Groups |-> {}]
    /\ inbox = [c \in Consumers |-> <<>>]
    /\ delivered = [c \in Consumers |-> <<>>]
    /\ subscriptions = [c \in Consumers |-> [topic \in Topics |-> <<>>]]
    /\ published = <<>>

Init ==
    ManagerInit /\ LoginOff /\ FramingOff /\ DecoderOff /\ PipelineOff
                /\ BroadcastOff

Spawned == {w \in Workers : wk[w].pc # "unspawned"}
\* Thread.is_alive()
Alive(w) == wk[w].pc \notin {"unspawned", "done"}
Live == {w \in Workers : Alive(w)}
\* inside _packet_loop
InLoop(w) == wk[w].pc = "loop"

(* ---------------------- _broadcast_connection_status ------------------- *)
\* an error text; lines holds the response lines joined into "Login failed: ..."
ErrMsg(text, lines) == [py |-> "str", text |-> text, lines |-> lines]
\* the channel layer is configured: every call sends one message
Broadcast(connected, error) == [connected |-> connected, error |-> error]
\* the kind of a status message
SentKind(connected, error) ==
    IF connected THEN "connected"
    ELSE IF error = None THEN "clean"
    ELSE IF error.text = "" /\ error.lines = <<>> THEN "blank"
    ELSE "reason"

(* ------------------------------ connect() ------------------------------ *)
\* what a call of connect() was given: credentials the validation of
\* _connection_worker accepts ("valid") or not ("invalid")
ArgsKind(s) ==
    IF "callsign" \in DOMAIN s /\ "passcode" \in DOMAIN s
       /\ Truthy(s.callsign) /\ Upper(s.callsign) # NOCALL
       /\ s.passcode.py = "int" /\ s.passcode.i > 0
    THEN "valid" ELSE "invalid"

\* faulty variant: connect() has no guard
NeverTurnedAway == FALSE

\* if self.is_connected: return
AlreadyConnected == is_connected

\* faulty variant: connect() leaves the stop request of an earlier disconnect() set
FlagKept == should_disconnect

\* line 38: self.should_disconnect = False
FlagAfterConnect == FALSE

\* lines 33-45; a call the guard turns away changes nothing
Connect(s) ==
    /\ AlreadyConnected \/ Cardinality(Spawned) < MaxConnects
    /\ UNCHANGED outsideManager
    /\ IF AlreadyConnected
       THEN UNCHANGED <<current_settings, should_disconnect, connection_thread, wk>>
       ELSE LET w == Cardinality(Spawned) + 1
            IN  /\ current_settings' = s
                /\ should_disconnect' = FlagAfterConnect
                /\ connection_thread' = w
                /\ wk' = [wk EXCEPT ![w].pc = "start", ![w].args = ArgsKind(s)]
    /\ UNCHANGED <<is_connected, socket, socks, status, dpc, opened, written>>

(* ----------------------------- disconnect() ---------------------------- *)
\* the socket objects after self.socket.close() (a no-op when self.socket is None)
CloseCurrent == IF socket = NoSocket THEN socks
                ELSE [socks EXCEPT ![socket] = "closed"]

\* if self.connection_thread and self.connection_thread.is_alive(): join(timeout=5)
MustJoin == connection_thread # NoThread /\ Alive(connection_thread)

\* lines 49-59; without a live thread to wait for the call runs through
\* lines 61-62 to its end
DisconnectBegin ==
    /\ dpc = "idle"
    /\ UNCHANGED outsideManager
    /\ should_disconnect' = TRUE
    /\ socks' = CloseCurrent
    /\ IF MustJoin
       THEN /\ dpc' = "join"
            /\ UNCHANGED <<is_connected, current_settings>>
       ELSE /\ dpc' = "idle"
            /\ is_connected' = FALSE
            /\ current_settings' = None
    /\ UNCHANGED <<socket, connection_thread, wk, status, opened, written>>

\* faulty variant: join() without a timeout returns when the thread has
\* exited
JoinWaits == ~MustJoin

\* line 59, join(timeout=5): returns when the thread has exited or the 5 s
\* have passed, whichever comes first
JoinReturns == TRUE

\* lines 61-62: join() returned, because the worker exited or because the
\* 5 s expired
DisconnectEnd ==
    /\ dpc = "join"
    /\ JoinReturns
    /\ UNCHANGED outsideManager
    /\ dpc' = "idle"
    /\ is_connected' = FALSE
    /\ current_settings' = None
    /\ UNCHANGED <<should_disconnect, socket, connection_thread, wk, socks, status,
                   opened, written>>

(* -------------------------- _connection_worker ------------------------- *)
\* a key read by subscript (lines 71-73) that the dictionary lacks
MissingKey(s) == {"callsign", "passcode", "location"} \ DOMAIN s

\* not callsign or callsign.upper() == 'NOCALL'
\*   or not isinstance(passcode, int) or passcode <= 0
InvalidCredentials(callsign, passcode) ==
    \/ ~Truthy(callsign)
    \/ Upper(callsign) = NOCALL
    \/ passcode.py # "int"
    \/ passcode.i <= 0

\* worker w sends a status message and leaves the try block for `finally`
Fails(w, error, cause) ==
    /\ status' = Broadcast(FALSE, error)
    /\ wk' = [wk EXCEPT ![w].pc = "finally", ![w].cause = cause,
                        ![w].sent = SentKind(FALSE, error)]

\* `except Exception as e` (lines 144-146): the status message carries
\* str(e). The exceptions the try block raises here (KeyError, TypeError,
\* OSError, socket.timeout) all have a text; the model keeps one text for
\* them all.
ExceptionText == "str(e)"
Raised(w, cause) == Fails(w, ErrMsg(ExceptionText, <<>>), cause)

\* lines 71-80: read the settings, validate callsign and passcode
WStart(w) ==
    /\ wk[w].pc = "start"
    /\ UNCHANGED outsideManager
    /\ IF current_settings = None
       THEN Raised(w, "exception")  \* TypeError: None is not subscriptable
       ELSE IF MissingKey(current_settings) # {}
       THEN Raised(w, "exception")  \* KeyError
       ELSE IF InvalidCredentials(current_settings.callsign, current_settings.passcode)
       THEN Fails(w, ErrMsg("Invalid callsign or passcode. Please set your real callsign and passcode in User Settings.", <<>>),
                  "rejected")
       ELSE /\ wk' = [wk EXCEPT ![w].pc = "create",
                                ![w].callsign = current_settings.callsign,
                                ![w].passcode = current_settings.passcode]
            /\ UNCHANGED status
    /\ UNCHANGED <<is_connected, should_disconnect, current_settings, socket,
                   connection_thread, socks, dpc, opened, written>>

\* lines 87-88: self.socket = socket.socket(...)
WCreate(w) ==
    /\ wk[w].pc = "create"
    /\ UNCHANGED outsideManager
    /\ socks' = [socks EXCEPT ![w] = "open"]
    /\ socket' = w
    /\ opened' = opened + 1
    /\ wk' = [wk EXCEPT ![w].pc = "connect", ![w].args = "none"]
    /\ UNCHANGED <<is_connected, should_disconnect, current_settings,
                   connection_thread, status, dpc, written>>

\* the state of socket object t makes connect() raise OSError: the socket is
\* closed (EBADF) or connected already (EISCONN)
ConnectError(t) == socks[t] \in {"closed", "connected"}
\* the state of socket object t makes send() and recv() raise OSError: the
\* socket is closed (EBADF) or not connected (ENOTCONN, EPIPE)
TransferError(t) == socks[t] \in {"closed", "open"}
\* why the operation failed: the socket was closed, or it is another worker's
StateCause(t) == IF socks[t] = "closed" THEN "closed" ELSE "misuse"

\* faulty variant: a failed connect is tried again with a new socket
ConnectRetried(w) ==
    /\ wk' = [wk EXCEPT ![w].pc = "create"]
    /\ UNCHANGED status

\* line 89 raised (refused, unreachable, timed out): lines 144-146, and no
\* other attempt
ConnectFailed(w) == Raised(w, "connect_failed")

\* line 89: self.socket.connect((server, port)); the relay accepts or not
WConnect(w) ==
    /\ wk[w].pc = "connect"
    /\ UNCHANGED outsideManager
    /\ IF ConnectError(socket)
       THEN /\ Raised(w, StateCause(socket))
            /\ UNCHANGED socks
       ELSE \/ /\ socks' = [socks EXCEPT ![socket] = "connected"]
               /\ wk' = [wk EXCEPT ![w].pc = "send"]
               /\ UNCHANGED status
            \/ /\ ConnectFailed(w)
               /\ UNCHANGED socks
    /\ UNCHANGED <<is_connected, should_disconnect, current_settings, socket,
                   connection_thread, dpc, opened, written>>

\* lines 92-97: self.socket.send(login_string.encode())
WSend(w) ==
    /\ wk[w].pc = "send"
    /\ UNCHANGED outsideManager
    /\ IF TransferError(socket)
       THEN /\ Raised(w, StateCause(socket))
            /\ UNCHANGED written
       ELSE /\ wk' = [wk EXCEPT ![w].pc = "handshake"]
            /\ written' = [written EXCEPT ![socket] = @ + 1]
            /\ UNCHANGED status
    /\ UNCHANGED <<is_connected, should_disconnect, current_settings, socket,
                   connection_thread, socks, dpc, opened>>

\* lines 112-117: the response carries a login acknowledgment
IsLoginAck(response) ==
    \/ Contains(Lower(response), W_verified)
    \/ Contains(Lower(response), W_unverified)
    \/ Contains(Lower(response), W_logresp)
    \/ Contains(Lower(response), W_hlogresp)

\* lines 112-119: the pass that received response ends with a break
Breaks(response) == IsLoginAck(response) \/ Strip(response) = <<>>

\* What the read loop of lines 104-124 can receive: up to HandshakeReads
\* responses, none but the last of which breaks the loop, and, when the loop
\* ended before a response broke it or the fifth was read, how the recv
\* after them failed: "timeout" (socket.timeout) or "error" (any other
\* exception); stop is "" otherwise.
Continuing == {r \in Responses : ~Breaks(r)}
Breaking == {r \in Responses : Breaks(r)}
Unbroken(most) == UNION {[1..n -> Continuing] : n \in 0..most}
HandshakeRuns ==
    {[reads |-> Append(pre, r), stop |-> ""] :
        pre \in Unbroken(HandshakeReads - 1), r \in Breaking}
    \cup {[reads |-> pre, stop |-> s] :
        pre \in Unbroken(HandshakeReads - 1), s \in {"timeout", "error"}}
    \cup {[reads |-> pre, stop |-> ""] :
        pre \in [1..HandshakeReads -> Continuing]}

\* response_lines after the reads: response_lines.append(response.strip())
ResponseLines(reads) == [i \in DOMAIN reads |-> Strip(reads[i])]

\* login_successful after the reads
LoginAcked(reads) == \E i \in DOMAIN reads : IsLoginAck(reads[i])

\* the outcome of the first recv of the handshake
First(run) == IF Len(run.reads) > 0 THEN "data" ELSE run.stop

\* the local variables when the read loop ends, for every run
HandshakeResults ==
    {[login_successful |-> LoginAcked(run.reads),
      response_lines |-> ResponseLines(run.reads),
      first |-> First(run)] : run \in HandshakeRuns}

\* faulty variant: login is assumed even when nothing was received
LoginAssumedAlways(login_successful, response_lines) == ~login_successful

\* lines 127-128: if not login_successful and response_lines
LoginAssumed(login_successful, response_lines) ==
    ~login_successful /\ Truthy(response_lines)

\* what the handshake heard: nothing, only empty lines, or some text
Heard(response_lines) ==
    IF response_lines = <<>> THEN "nothing"
    ELSE IF \A i \in DOMAIN response_lines : response_lines[i] = <<>> THEN "empty"
    ELSE "text"

\* lines 127-132 and 140-142, reached when the read loop of the handshake
\* ends: self.is_connected = True, or the "Login failed" status
Verdict(w, res) ==
    LET ok == res.login_successful
              \/ LoginAssumed(res.login_successful, res.response_lines)
        me == [wk[w] EXCEPT !.first = res.first,
                            !.heard = Heard(res.response_lines),
                            !.login = IF res.login_successful THEN "ack"
                                      ELSE IF ok THEN "assumed" ELSE "failed"]
    IN  IF ok
        THEN /\ is_connected' = TRUE
             /\ wk' = [wk EXCEPT ![w] = [me EXCEPT !.pc = "announce"]]
             /\ UNCHANGED status
        ELSE LET error == ErrMsg("Login failed: ", res.response_lines)
             IN  /\ status' = Broadcast(FALSE, error)
                 /\ wk' = [wk EXCEPT ![w] = [me EXCEPT !.pc = "finally",
                                                       !.cause = "login_failed",
                                                       !.sent = SentKind(FALSE, error)]]
                 /\ UNCHANGED is_connected

\* lines 99-142: the read loop of the handshake and the verdict. The loop
\* reads and writes only local variables and the socket; a socket that
\* cannot be read (closed by disconnect(), or another worker's that is not
\* connected yet) makes the first recv raise.
WHandshake(w) ==
    /\ wk[w].pc = "handshake"
    /\ UNCHANGED outsideManager
    /\ IF TransferError(socket)
       THEN Verdict(w, [login_successful |-> FALSE, response_lines |-> <<>>,
                        first |-> "error"])
       ELSE \E res \in HandshakeResults : Verdict(w, res)
    /\ UNCHANGED <<should_disconnect, current_settings, socket, connection_thread,
                   socks, dpc, opened, written>>

\* line 136: self._broadcast_connection_status(True)
WAnnounce(w) ==
    /\ wk[w].pc = "announce"
    /\ UNCHANGED outsideManager
    /\ status' = Broadcast(TRUE, None)
    /\ wk' = [wk EXCEPT ![w].pc = "loop", ![w].first = "none",
                        ![w].heard = "none", ![w].login = "none",
                        ![w].sent = SentKind(TRUE, None)]
    /\ UNCHANGED <<is_connected, should_disconnect, current_settings, socket,
                   connection_thread, socks, dpc, opened, written>>

(* ----------------------------- _packet_loop ---------------------------- *)
\* while not self.should_disconnect
StopRequested == should_disconnect

\* lines 156-180, one pass of the loop: the loop condition,
\* self.socket.settimeout(1.0), self.socket.recv(1024), and the complete
\* lines of the data processed
WLoop(w) ==
    /\ wk[w].pc = "loop"
    /\ UNCHANGED outsideManager
    /\ IF StopRequested
       THEN wk' = [wk EXCEPT ![w].pc = "finally", ![w].cause = "stopped"]
       ELSE IF TransferError(socket)
       THEN \* closed (by disconnect() or by another worker), or another
            \* worker's socket that is not connected yet: OSError,
            \* except Exception: break
            wk' = [wk EXCEPT ![w].pc = "finally", ![w].cause = StateCause(socket)]
       ELSE \/ \* data, or except socket.timeout: continue
               UNCHANGED wk
            \/ \* if not data: break
               wk' = [wk EXCEPT ![w].pc = "finally", ![w].cause = "eof"]
            \/ \* a socket error: except Exception: break
               wk' = [wk EXCEPT ![w].pc = "finally", ![w].cause = "sock_error"]
    /\ UNCHANGED <<is_connected, should_disconnect, current_settings, socket,
                   connection_thread, socks, status, dpc, opened, written>>

\* lines 147-150: finally: self.is_connected = False; self.socket.close();
\* the thread ends
WFinally(w) ==
    /\ wk[w].pc = "finally"
    /\ UNCHANGED outsideManager
    /\ is_connected' = FALSE
    /\ socks' = CloseCurrent
    /\ wk' = [wk EXCEPT ![w] = [IdleWorker EXCEPT !.pc = "done"]]
    /\ UNCHANGED <<should_disconnect, current_settings, socket, connection_thread,
                   status, dpc, opened, written>>

WorkerStep(w) ==
    \/ WStart(w)
    \/ WCreate(w)
    \/ WConnect(w)
    \/ WSend(w)
    \/ WHandshake(w)
    \/ WAnnounce(w)
    \/ WLoop(w)
    \/ WFinally(w)

(* ------------------- APRSParser (aprs_listener.py) --------------------- *)
DigitChars == <<"0","1","2","3","4","5","6","7","8","9">>
IsDigitChar(c) == \E i \in DOMAIN DigitChars : DigitChars[i] = c
DigitValue(c) == (CHOOSE i \in DOMAIN DigitChars : DigitChars[i] = c) - 1

\* str.isdigit() on ASCII text: not empty, every character a digit
IsDigit(s) == s # <<>> /\ \A i \in DOMAIN s : IsDigitChar(s[i])

\* int(s) of a digit string
RECURSIVE IntOf(_)
IntOf(s) ==
    IF s = <<>> THEN 0
    ELSE 10 * IntOf(SubSeq(s, 1, Len(s) - 1)) + DigitValue(s[Len(s)])

\* float(s) succeeds on digits with at most one '.', blanks around them
\* allowed.  (float() accepts more: a sign, an exponent, inf, nan; the lines
\* decoded here hold digits and '.', or a capital letter that float() refuses.)
FloatParses(s) ==
    LET x == Strip(s)
    IN  /\ \A i \in DOMAIN x : IsDigitChar(x[i]) \/ x[i] = "."
        /\ \E i \in DOMAIN x : IsDigitChar(x[i])
        /\ Cardinality({i \in DOMAIN x : x[i] = "."}) <= 1

\* float(s) in hundredths, for a text with at most two decimals
Hundredths(s) ==
    LET x    == Strip(s)
        dots == {i \in DOMAIN x : x[i] = "."}
        dot  == IF dots = {} THEN Len(x) + 1 ELSE CHOOSE i \in dots : TRUE
        int  == SubSeq(x, 1, dot - 1)
        frac == SubSeq(x, dot + 1, Len(x))
        two  == SubSeq(frac \o <<"0", "0">>, 1, 2)
    IN  100 * IntOf(int) + IntOf(two)

\* s.find(c) + 1: the first place of character c in s, 0 when there is none
IndexOf(s, c) ==
    IF \E i \in DOMAIN s : s[i] = c
    THEN CHOOSE i \in DOMAIN s : s[i] = c /\ \A j \in 1..(i - 1) : s[j] # c
    ELSE 0

\* s.split(c): the parts between the occurrences of c
RECURSIVE Split(_, _)
Split(s, c) ==
    IF IndexOf(s, c) = 0 THEN <<s>>
    ELSE <<SubSeq(s, 1, IndexOf(s, c) - 1)>>
         \o Split(SubSeq(s, IndexOf(s, c) + 1, Len(s)), c)

\* s.split(c, 1): at most two parts
SplitOnce(s, c) ==
    IF IndexOf(s, c) = 0 THEN <<s>>
    ELSE <<SubSeq(s, 1, IndexOf(s, c) - 1), SubSeq(s, IndexOf(s, c) + 1, Len(s))>>

\* s.startswith(c)
StartsWith(s, c) == s # <<>> /\ s[1] = c

\* s[lo:hi] and s[lo:] with Python's indices (from 0, hi excluded, clipped)
Slice(s, lo, hi) == SubSeq(s, lo + 1, IF hi < Len(s) THEN hi ELSE Len(s))
SliceFrom(s, lo) == SubSeq(s, lo + 1, Len(s))

\* a dict is a function from its keys; the empty dict
EmptyDict == [k \in {} |-> None]
\* d.update(e)
Update(d, e) ==
    [k \in DOMAIN d \cup DOMAIN e |-> IF k \in DOMAIN e THEN e[k] ELSE d[k]]
\* d.get(k, default)
Get(d, k, default) == IF k \in DOMAIN d THEN d[k] ELSE default

\* faulty variant: the hemisphere letter is not looked at
NorthEast(value, letter, minus) == value

\* lines 78-83, if lat_str[7] == 'S': lat = -lat (and 'W' for lon)
Hemisphere(value, letter, minus) == IF letter = minus THEN -value ELSE value

\* faulty variant: the handler returns the coordinate it had
HalfResult == [longitude |-> 0]

\* lines 97-99, except Exception: return {}
OnError == EmptyDict

\* lines 61-99, _parse_position.  latitude and longitude are kept in
\* hundredths of a minute (6000 to the degree): degrees + minutes / 60.
\* A text float() refuses raises ValueError, which is caught: result {}.
parse_position(info) ==
    LET data    == IF StartsWith(info, "!") \/ StartsWith(info, "=")
                   THEN SliceFrom(info, 1) ELSE info
        lat_str == Slice(data, 0, 8)
        lon_str == Slice(data, 9, 18)
        lat     == 60 * Hundredths(Slice(lat_str, 0, 2))
                   + Hundredths(Slice(lat_str, 2, 7))
        lon     == 60 * Hundredths(Slice(lon_str, 0, 3))
                   + Hundredths(Slice(lon_str, 3, 8))
        result  == [latitude     |-> Hemisphere(lat, lat_str[8], "S"),
                    longitude    |-> Hemisphere(lon, lon_str[9], "W"),
                    symbol_table |-> data[9],
                    symbol_code  |-> IF Len(data) > 18 THEN data[19] ELSE "/"]
    IN  IF Len(data) < 19 THEN EmptyDict
        ELSE IF ~ /\ FloatParses(Slice(lat_str, 0, 2))
                  /\ FloatParses(Slice(lat_str, 2, 7))
                  /\ FloatParses(Slice(lon_str, 0, 3))
                  /\ FloatParses(Slice(lon_str, 3, 8))
        THEN OnError
        ELSE IF Len(data) > 19
        THEN Update(result, [comment |-> SliceFrom(data, 19)])
        ELSE result

\* faulty variant: any text that begins with 'ack' counts
StartsWithAck(message_text) ==
    Slice(Lower(Strip(message_text)), 0, 3) = <<"a", "c", "k">>

\* line 170, message_text.strip().lower() == 'ack'
IsAck(message_text) == Lower(Strip(message_text)) = <<"a", "c", "k">>

\* lines 146-176, _parse_message.  With a '{' in the text and no '}' after
\* it message_no stays None.
parse_message(info) ==
    LET data         == SliceFrom(info, 1)
        both         == SplitOnce(data, ":")
        addressee    == both[1]
        message_part == both[2]
        halves       == SplitOnce(message_part, "{")
        message_text == IF IndexOf(message_part, "{") > 0
                        THEN halves[1] ELSE message_part
        message_no   == IF IndexOf(message_part, "{") > 0
                           /\ IndexOf(halves[2], "}") > 0
                        THEN PyStr(Split(halves[2], "}")[1])
                        ELSE None
    IN  IF IndexOf(data, ":") = 0 THEN EmptyDict
        ELSE [addressee      |-> Strip(addressee),
              message        |-> Strip(message_text),
              message_number |-> message_no,
              is_ack         |-> IsAck(message_text)]

\* lines 101-143, _parse_weather.  rainfall_1h is kept in hundredths
\* (int(parts[4]) / 100.0) and pressure in tenths (int(parts[5]) / 10.0).
parse_weather(info) ==
    LET data  == SliceFrom(info, 1)
        parts == Split(data, "/")
        speed_gust == Split(parts[3], "g")
        field(name, i) == IF Len(parts) >= i /\ IsDigit(parts[i])
                          THEN name :> IntOf(parts[i]) ELSE EmptyDict
        wind  == IF IndexOf(parts[3], "g") = 0 THEN EmptyDict
                 ELSE Update(IF IsDigit(speed_gust[1])
                             THEN [wind_speed |-> IntOf(speed_gust[1])]
                             ELSE EmptyDict,
                             IF IsDigit(speed_gust[2])
                             THEN [wind_gust |-> IntOf(speed_gust[2])]
                             ELSE EmptyDict)
    IN  IF Len(parts) < 3 THEN EmptyDict
        ELSE Update(Update(Update(Update(Update(
                 field("wind_direction", 2), wind),
                 field("temperature", 4)),
                 field("rainfall_1h", 5)),
                 field("pressure", 6)),
                 field("humidity", 7))

\* how a call ends: it returns a value, or it raises an exception
Returns(v) == [raised |-> FALSE, value |-> v]
Raises(e) == [raised |-> TRUE, error |-> e]

\* faulty variant: the marker stays in the status text
StatusWithMarker(info) == info

\* line 47, parsed['status'] = info[1:]
StatusText(info) == SliceFrom(info, 1)

\* lines 24-54, the try block of parse_packet.  The 'timestamp' entry (the
\* time of decoding) is left out of the dict.  A line with '>' and without
\* ':' makes the unpacking of line 28 raise ValueError.
parse_body(raw_packet) ==
    LET both   == SplitOnce(raw_packet, ":")
        header == both[1]
        info   == both[2]
        source == Split(header, ">")[1]
        parsed == [source_callsign |-> source,
                   raw_packet      |-> raw_packet,
                   info            |-> info]
    IN  IF IndexOf(raw_packet, ">") = 0
        THEN Returns([error |-> "Invalid packet format"])
        ELSE IF IndexOf(raw_packet, ":") = 0
        THEN Raises("not enough values to unpack (expected 2, got 1)")
        ELSE IF StartsWith(info, "!") \/ StartsWith(info, "=")
        THEN Returns(Update(Update(parsed, parse_position(info)),
                            [packet_type |-> "position"]))
        ELSE IF StartsWith(info, "_")
        THEN Returns(Update(Update(parsed, parse_weather(info)),
                            [packet_type |-> "weather"]))
        ELSE IF StartsWith(info, ">")
        THEN Returns(Update(parsed, [packet_type |-> "status",
                                     status      |-> StatusText(info)]))
        ELSE IF StartsWith(info, ":")
        THEN Returns(Update(Update(parsed, parse_message(info)),
                            [packet_type |-> "message"]))
        ELSE Returns(Update(parsed, [packet_type |-> "other"]))

\* faulty variant: the exception of the try block is not caught
ExceptionEscapes(outcome) == outcome

\* lines 56-58: except Exception as e: return {'error': str(e)}
ExceptError(outcome) ==
    IF outcome.raised THEN Returns([error |-> outcome.error]) ELSE outcome

\* lines 20-58, parse_packet
parse_packet(raw_packet) == ExceptError(parse_body(raw_packet))

(* ---------------- _connection_worker: the login line ------------------- *)
\* str(n) of an int
RECURSIVE StrNat(_)
StrNat(n) ==
    IF n < 10 THEN <<DigitChars[n + 1]>>
    ELSE StrNat(n \div 10) \o <<DigitChars[(n % 10) + 1]>>
Str(n) == IF n < 0 THEN <<"-">> \o StrNat(-n) ELSE StrNat(n)

\* sep.join(parts)
RECURSIVE Join(_, _)
Join(parts, sep) ==
    IF parts = <<>> THEN <<>>
    ELSE IF Len(parts) = 1 THEN parts[1]
    ELSE parts[1] \o sep \o Join(Tail(parts), sep)

\* the truth value of None, of an int and of a dict
IsTrue(x) ==
    IF "py" \in DOMAIN x
    THEN x.py = "int" /\ x.i # 0
    ELSE DOMAIN x # {}

\* lines 265-276, _build_filter_string(location, filters)
build_filter_string(location, filters) ==
    LET filter_parts ==
            IF IsTrue(location) /\ IsTrue(Get(filters, "distanceRange", None))
            THEN << <<"r", "/">> \o Str(location.latitude) \o <<"/">>
                    \o Str(location.longitude) \o <<"/">>
                    \o Str(filters.distanceRange.i) >>
            ELSE <<>>
    IN  Join(filter_parts, <<" ">>)

\* faulty variant: the filter clause is always written
ClauseAlways(filter_str) == TRUE

\* line 93, if filter_str:
HasFilter(filter_str) == Truthy(filter_str)

\* lines 92-95, the login line
login_string(callsign, passcode, filter_str) ==
    <<"u", "s", "e", "r", " ">> \o callsign
    \o <<" ", "p", "a", "s", "s", " ">> \o Str(passcode.i)
    \o <<" ", "v", "e", "r", "s", " ", "A", "P", "R", "S", "w", "x", " ",
         "1", ".", "0">>
    \o (IF HasFilter(filter_str)
        THEN <<" ", "f", "i", "l", "t", "e", "r", " ">> \o filter_str
        ELSE <<>>)
    \o <<"\r", "\n">>

\* settings that pass the validation of line 77: two callsigns and
\* passcodes; no location, an empty one, two locations (one at 0, 0); no
\* 'aprsIsFilters', an empty one, a distance range of None, 0, 100
LoginLocations ==
    {None, EmptyDict, Location, [latitude |-> 0, longitude |-> 0]}
LoginFilters ==
    {EmptyDict, [distanceRange |-> None], [distanceRange |-> PyInt(0)],
     [distanceRange |-> PyInt(100)]}
LoginSettings ==
    {[callsign |-> c, passcode |-> PyInt(p), location |-> l] :
        c \in {CS_W1AW, CS_N0CALL}, p \in {7, 12345}, l \in LoginLocations}
    \cup
    {[callsign |-> c, passcode |-> PyInt(p), location |-> l,
      aprsIsFilters |-> f] :
        c \in {CS_W1AW, CS_N0CALL}, p \in {7, 12345}, l \in LoginLocations,
        f \in LoginFilters}

LoginInit ==
    /\ ManagerInit
    /\ FramingOff
    /\ DecoderOff
    /\ PipelineOff
    /\ BroadcastOff
    /\ loginIn \in LoginSettings
    /\ loginOut = Pending

\* lines 71-74 and 81-97: the login line built from self.current_settings
BuildLogin ==
    /\ loginOut = Pending
    /\ loginOut' =
          [text |-> login_string(
                       loginIn.callsign, loginIn.passcode,
                       build_filter_string(
                           loginIn.location,
                           Get(loginIn, "aprsIsFilters", EmptyDict)))]
    /\ UNCHANGED loginIn
    /\ UNCHANGED outsideLogin

LoginNext == BuildLogin

LoginSpec == LoginInit /\ [][LoginNext]_vars

(* ------------------- _packet_loop: framing the stream ------------------ *)
\* length of the stream the relay sends
MaxStream == 4

\* The bytes of a stream: a letter, '#', a blank, the newline, and the two
\* bytes 0xC3 0xA9 of the UTF-8 encoding of one character outside ASCII.
Bytes == {"a", "#", " ", "\n", "xC3", "xA9"}
Streams == UNION {[1..n -> Bytes] : n \in 0..MaxStream}

\* bytes.decode('utf-8', errors='ignore'): a lead byte followed by its
\* continuation byte is one character; a lead byte without it, and a
\* continuation byte on its own, are dropped
RECURSIVE Decode(_)
Decode(b) ==
    IF b = <<>> THEN <<>>
    ELSE IF b[1] = "xC3"
    THEN IF Len(b) >= 2 /\ b[2] = "xA9"
         THEN <<"U+E9">> \o Decode(SubSeq(b, 3, Len(b)))
         ELSE Decode(Tail(b))
    ELSE IF b[1] = "xA9" THEN Decode(Tail(b))
    ELSE <<b[1]>> \o Decode(Tail(b))

\* if line and not line.startswith('#')
IsPacketLine(line) == line # <<>> /\ line[1] # "#"

\* lines 170-176: while '\n' in buffer: line, buffer = buffer.split('\n', 1);
\* line = line.strip(); the lines handed to _process_packet and the buffer
\* that is left
RECURSIVE ProcessCompleteLines(_)
ProcessCompleteLines(buf) ==
    IF ~Contains(buf, <<"\n">>)
    THEN [lines |-> <<>>, buffer |-> buf]
    ELSE LET i    == CHOOSE k \in DOMAIN buf :
                        buf[k] = "\n" /\ \A j \in 1..(k - 1) : buf[j] # "\n"
             line == Strip(SubSeq(buf, 1, i - 1))
             rest == ProcessCompleteLines(SubSeq(buf, i + 1, Len(buf)))
         IN  [lines  |-> (IF IsPacketLine(line) THEN <<line>> ELSE <<>>) \o rest.lines,
              buffer |-> rest.buffer]

\* a stream has been sent to a worker that enters the loop: buffer = ""
FramingInit ==
    /\ ManagerInit
    /\ LoginOff
    /\ BroadcastOff
    /\ DecoderOff
    /\ PipelineOff
    /\ relay \in Streams
    /\ received = <<>>
    /\ buffer = <<>>
    /\ handed = <<>>
    /\ reading = TRUE

\* lines 162-176, one pass of the loop in which recv returns the next n bytes
Recv(n) ==
    /\ reading
    /\ n \in 1..Len(relay)
    /\ LET chunk == SubSeq(relay, 1, n)
           data  == Decode(chunk)
           done  == ProcessCompleteLines(buffer \o data)
       IN  /\ relay' = SubSeq(relay, n + 1, Len(relay))
           /\ received' = received \o chunk
           /\ IF data = <<>>
              THEN \* if not data: break
                   /\ reading' = FALSE
                   /\ UNCHANGED <<buffer, handed>>
              ELSE /\ buffer' = done.buffer
                   /\ handed' = handed \o done.lines
                   /\ UNCHANGED reading
    /\ UNCHANGED outsideFraming

\* lines 162-164: the relay has closed the stream, recv returns b'': break
RecvEnd ==
    /\ reading
    /\ relay = <<>>
    /\ reading' = FALSE
    /\ UNCHANGED <<relay, received, buffer, handed>>
    /\ UNCHANGED outsideFraming

FramingNext ==
    \/ \E n \in 1..MaxStream : Recv(n)
    \/ RecvEnd

FramingSpec == FramingInit /\ [][FramingNext]_vars

(* ----------------------- one call of the decoder ----------------------- *)
\* length of the short lines the decoder is given
MaxLine == 4

\* every line of at most MaxLine characters over a letter and the two
\* separators of the framing
LineChars == {"A", ">", ":"}
ShortLines == UNION {[1..n -> LineChars] : n \in 0..MaxLine}

\* SOURCE>DESTINATION: the header of the sample lines, up to the separator
Header == <<"W", "1", "A", "W", ">", "A", "P", "R", "S", ":">>
T_TESTCALL == <<"T", "E", "S", "T", "C", "A", "L", "L", " ">>
T_W1AW == <<"W", "1", "A", "W", " ", " ", " ", " ", " ">>
T_Hello == <<"H", "e", "l", "l", "o">>
T_ack == <<"a", "c", "k">>
T_001 == <<"0", "0", "1">>
T_7 == <<"7">>

\* messages ':ADDRESSEE:text{NNN', with and without the closing '}'
MessageCases ==
    [addressee : {T_TESTCALL, T_W1AW}, text : {T_Hello, T_ack},
     number : {T_001, T_7}, closed : BOOLEAN]
MessageLine(m) ==
    Header \o <<":">> \o m.addressee \o <<":">> \o m.text \o <<"{">> \o m.number
    \o (IF m.closed THEN <<"}">> ELSE <<>>)

\* message texts, each with the answer to "is it the literal ack?"
AckCases ==
    { [text |-> <<"a", "c", "k">>, ack |-> TRUE],
      [text |-> <<"A", "C", "K">>, ack |-> TRUE],
      [text |-> <<" ", "A", "c", "k", " ">>, ack |-> TRUE],
      [text |-> <<"a", "c", "k", "0", "0", "1">>, ack |-> FALSE],
      [text |-> <<"a", "c", " ", "k">>, ack |-> FALSE],
      [text |-> <<"n", "a", "c", "k">>, ack |-> FALSE],
      [text |-> <<"a", "c">>, ack |-> FALSE],
      [text |-> <<>>, ack |-> FALSE],
      [text |-> T_Hello, ack |-> FALSE] }
\* what follows the text: nothing, a message number, one without its '}'
AckTails == {<<>>, <<"{">> \o T_001 \o <<"}">>, <<"{">> \o T_7}
AckLine(text, tail) ==
    Header \o <<":">> \o T_W1AW \o <<":">> \o text \o tail

\* a weather report in the positionless format of the APRS protocol:
\* 'N0WX-3>APZ001,WIDE2-1:_23844728c054s000g005t072r000p000P000b10020h50'
WeatherReport ==
    <<"N", "0", "W", "X", "-", "3", ">", "A", "P", "Z", "0", "0", "1", ",", "W", "I", "D", "E", "2", "-", "1", ":", "_", "2", "3", "8", "4", "4", "7", "2", "8", "c", "0", "5", "4", "s", "0", "0", "0", "g", "0", "0", "5", "t", "0", "7", "2", "r", "0", "0", "0", "p", "0", "0", "0", "P", "0", "0", "0", "b", "1", "0", "0", "2", "0", "h", "5", "0">>

\* 'KD8ABC-9>APZ001,WIDE1-1:=4042.77N/07400.36W>Test'
PositionReport ==
    <<"K", "D", "8", "A", "B", "C", "-", "9", ">", "A", "P", "Z", "0", "0", "1", ",", "W", "I", "D", "E", "1", "-", "1", ":", "=", "4", "0", "4", "2", ".", "7", "7", "N", "/", "0", "7", "4", "0", "0", ".", "3", "6", "W", ">", "T", "e", "s", "t">>

\* n written with the given number of digits
RECURSIVE Digits(_, _)
Digits(n, width) ==
    IF width = 0 THEN <<>>
    ELSE Digits(n \div 10, width - 1) \o <<DigitChars[(n % 10) + 1]>>

\* well-formed positions: degrees, minutes in hundredths, hemisphere
\* letters, symbol table and code, comment
PositionCases ==
    [latDeg : {7, 40}, latMin : {5, 4277}, ns : {"N", "S"},
     lonDeg : {9, 74}, lonMin : {36, 5999}, ew : {"E", "W"},
     indicator : {"!", "="}, code : {">", "-"},
     comment : {<<>>, <<"T", "e", "s", "t">>}]
\* INFO of a position: indicator, DDMM.hhN, symbol table, DDDMM.hhW, symbol
\* code, comment
PositionInfo(p) ==
    <<p.indicator>>
    \o Digits(p.latDeg, 2) \o Digits(p.latMin \div 100, 2) \o <<".">>
    \o Digits(p.latMin % 100, 2) \o <<p.ns>> \o <<"/">>
    \o Digits(p.lonDeg, 3) \o Digits(p.lonMin \div 100, 2) \o <<".">>
    \o Digits(p.lonMin % 100, 2) \o <<p.ew>> \o <<p.code>> \o p.comment
PositionLine(p) == Header \o PositionInfo(p)

\* lines whose INFO begins with each marker and with other characters,
\* the marker alone or followed by text
Markers == {"!", "=", "_", ">", ":", "?", "T", " "}
MarkerLines ==
    {Header \o <<c>> \o rest : c \in Markers, rest \in {<<>>, <<"h", "i">>}}

\* weather reports of slash-separated fields: with two to seven fields,
\* with fields that are not numbers, with and without the 'g' of the gust
WeatherTails ==
    {<<"1", "/", "2">>,
     <<"1", "/", "2", "/">>,
     <<"1", "/", "2", "/", "3", "g", "4">>,
     <<"1", "/", "2", "/", "3", "g", "4", "/", "5", "/", "6", "/", "7", "/", "8">>,
     <<"1", "/", "x", "/", "3", "g", "4", "/", "5">>,
     <<"1", "/", "2", "/", "3", "4", "/", "5">>,
     <<"1", "/", "2", "/", "x", "g", "4", "/", "5", "/", "y", "/", "7">>}
WeatherLines == {Header \o <<"_">> \o tail : tail \in WeatherTails}

\* positions the decoder cannot read: fewer than 19 characters after the
\* indicator, a latitude or a longitude (or both) that is not a number
MalformedTails ==
    {<<"4", "0", "4", "2">>,
     <<"4", "0", "4", "2", ".", "7", "7", "N", "/", "0", "7", "4", "0", "0", ".", "3", "6", "W">>,
     <<"4", "X", "4", "2", ".", "7", "7", "N", "/", "0", "7", "4", "0", "0", ".", "3", "6", "W", ">">>,
     <<"4", "0", "4", "2", ".", "7", "7", "N", "/", "0", "7", "4", "X", "0", ".", "3", "6", "W", ">">>,
     <<"4", "0", "X", "2", ".", "7", "7", "N", "/", "0", "7", "X", "0", "0", ".", "3", "6", "W", ">", "h", "i">>,
     <<"4", "0", "4", "2", ".", "7", "7", "N", "/", "0", "7", "4", "0", "0", ".", "3", "6">>}
MalformedPositions ==
    {Header \o <<c>> \o tail : c \in {"!", "="}, tail \in MalformedTails}

DecoderLines ==
    ShortLines \cup {MessageLine(m) : m \in MessageCases}
               \cup MarkerLines
               \cup WeatherLines
               \cup MalformedPositions
               \cup {PositionReport} \cup {PositionLine(p) : p \in PositionCases}
               \cup {WeatherReport}
               \cup {AckLine(a.text, tail) : a \in AckCases, tail \in AckTails}

DecoderInit ==
    /\ ManagerInit
    /\ LoginOff
    /\ BroadcastOff
    /\ FramingOff
    /\ PipelineOff
    /\ decoderIn \in DecoderLines
    /\ decoderOut = Pending

\* parsed = APRSParser.parse_packet(raw_packet)
ParsePacket ==
    /\ decoderOut = Pending
    /\ decoderOut' = parse_packet(decoderIn)
    /\ UNCHANGED decoderIn
    /\ UNCHANGED outsideDecoder

DecoderNext == ParsePacket

DecoderSpec == DecoderInit /\ [][DecoderNext]_vars

(* --------------------------- _process_packet --------------------------- *)
\* number of lines handed to _process_packet
MaxPackets == 3

\* the lines handed to _process_packet: positions of two stations (with and
\* without a comment, one too short to hold coordinates), a weather report,
\* a message, a status, a query, and two lines the decoder refuses
P_Fixed == <<"W", "1", "A", "W", ">", "A", "P", "R", "S", ":", "!", "4", "9", "0", "3", ".", "5", "0", "N", "/", "0", "7", "2", "0", "1", ".", "7", "5", "W", "-", "T", "e", "s", "t">>
P_Mobile == <<"W", "1", "A", "W", ">", "A", "P", "R", "S", ":", "=", "4", "0", "4", "2", ".", "7", "7", "N", "/", "0", "7", "4", "0", "0", ".", "3", "6", "W", ">">>
P_Short == <<"W", "1", "A", "W", ">", "A", "P", "R", "S", ":", "!", "4", "9", "0", "3", ".", "5", "0", "N">>
P_Other == <<"N", "0", "W", "X", ">", "A", "P", "R", "S", ":", "!", "4", "9", "0", "3", ".", "5", "0", "N", "/", "0", "7", "2", "0", "1", ".", "7", "5", "W", "_", "w", "x">>
P_Weather == <<"N", "0", "W", "X", ">", "A", "P", "R", "S", ":", "_", "2", "3", "8", "/", "0", "5", "4", "/", "0", "0", "0", "g", "0", "0", "5", "/", "0", "7", "2">>
P_Message == <<"W", "1", "A", "W", ">", "A", "P", "R", "S", ":", ":", "T", "E", "S", "T", "C", "A", "L", "L", " ", ":", "H", "e", "l", "l", "o", "{", "0", "0", "1", "}">>
P_Status == <<"W", "1", "A", "W", ">", "A", "P", "R", "S", ":", ">", "h", "i">>
P_Query == <<"W", "1", "A", "W", ">", "A", "P", "R", "S", ":", "?", "q">>
P_NoHeader == <<"n", "o", "g", "t">>
P_NoInfo == <<"W", "1", "A", "W", ">", "A", "P", "R", "S">>
PipelineLines ==
    {P_Fixed, P_Mobile, P_Short, P_Other, P_Weather, P_Message, P_Status,
     P_Query, P_NoHeader, P_NoInfo}

\* lines 196-202: APRSPacket.objects.create(...)
NewPacket(parsed, raw_packet) ==
    [id              |-> Len(packetTable) + 1,
     source_callsign |-> parsed.source_callsign,
     packet_type     |-> parsed.packet_type,
     timestamp       |-> clock,
     raw_packet      |-> raw_packet]

\* lines 205-221: group_send('aprs_packets', {'type': 'packet_update', ...})
PacketUpdate(packet) ==
    [group |-> "aprs_packets", type |-> "packet_update", packet |-> packet]

\* lines 227-236: the defaults of update_or_create
StationDefaults(parsed) ==
    [latitude     |-> parsed.latitude,
     longitude    |-> parsed.longitude,
     symbol_table |-> Get(parsed, "symbol_table", "/"),
     symbol_code  |-> Get(parsed, "symbol_code", "/"),
     last_heard   |-> clock,
     last_comment |-> Get(parsed, "comment", <<>>),
     station_type |-> IF Get(parsed, "symbol_code", "") = ">"
                      THEN "mobile" ELSE "fixed",
     is_active    |-> TRUE]

\* the rows of Station with a callsign
StationsOf(callsign) == {s \in stationTable : s.callsign = callsign}

\* lines 225-237: Station.objects.update_or_create(callsign=..., defaults=...):
\* the row with the callsign gets the defaults, or a row is created with them
UpdateOrCreate(callsign, defaults) ==
    IF StationsOf(callsign) = {}
    THEN stationTable
         \cup {Update([id |-> Cardinality(stationTable) + 1,
                       callsign |-> callsign], defaults)}
    ELSE {IF s.callsign = callsign THEN Update(s, defaults) ELSE s :
              s \in stationTable}

\* lines 240-258: group_send('stations', {'type': 'station_update', ...})
StationUpdate(callsign) ==
    [group |-> "stations", type |-> "station_update", callsign |-> callsign]

\* line 223: if parsed['packet_type'] == 'position' and 'latitude' in parsed
\* and 'longitude' in parsed
UpdatesStation(parsed) ==
    /\ parsed.packet_type = "position"
    /\ "latitude" \in DOMAIN parsed
    /\ "longitude" \in DOMAIN parsed

\* lines 184-263, _process_packet(raw_packet); the channel layer is
\* configured and the store accepts every row
ProcessPacket(raw_packet) ==
    /\ packetLoop = "running"
    /\ Len(processed) < MaxPackets
    /\ UNCHANGED packetLoop
    /\ processed' = Append(processed, [raw_packet |-> raw_packet, at |-> clock])
    /\ clock' = clock + 1
    /\ LET parsed == parse_packet(raw_packet).value
       IN  IF "error" \in DOMAIN parsed
           THEN \* lines 192-194: logged, return
                UNCHANGED <<packetTable, stationTable, groupSent>>
           ELSE LET packet == NewPacket(parsed, raw_packet)
                IN  /\ packetTable' = Append(packetTable, packet)
                    /\ IF UpdatesStation(parsed)
                       THEN /\ stationTable' =
                                 UpdateOrCreate(parsed.source_callsign,
                                                StationDefaults(parsed))
                            /\ groupSent' = groupSent
                                 \o <<PacketUpdate(packet),
                                      StationUpdate(parsed.source_callsign)>>
                       ELSE /\ groupSent' = Append(groupSent, PacketUpdate(packet))
                            /\ UNCHANGED stationTable
    /\ UNCHANGED outsidePipeline

\* the calls of _process_packet that may raise: APRSPacket.objects.create
\* (line 197), group_send to 'aprs_packets' (208), update_or_create (225),
\* group_send to 'stations' (240)
Faults == {"create", "send_packet", "update_or_create", "send_station"}

\* faulty variant: the exception leaves _process_packet
Propagates(fault) == "raised"

\* lines 262-263, except Exception as e: logger.error(...): the call returns
Caught(fault) == "returned"

\* _packet_loop, lines 175-180: the call of _process_packet stands in the
\* try block of the loop, whose handler logs and breaks
LoopAfter(outcome) == IF outcome = "raised" THEN "ended" ELSE "running"

\* lines 136-150 and 278-290: when the loop has ended the worker reports
\* the session as disconnected
ConnectionStatus(connected) ==
    [group |-> "aprs_packets", type |-> "connection_status",
     connected |-> connected]

\* lines 184-263, _process_packet(raw_packet) when one of its calls raises:
\* what was done before the call stays, the rest of the try block is skipped
ProcessPacketFails(raw_packet, fault) ==
    /\ packetLoop = "running"
    /\ Len(processed) < MaxPackets
    /\ LET parsed == parse_packet(raw_packet).value
           packet == NewPacket(parsed, raw_packet)
           after  == LoopAfter(Caught(fault))
       IN  /\ "error" \notin DOMAIN parsed
           /\ fault \in {"update_or_create", "send_station"} =>
                 UpdatesStation(parsed)
           /\ packetTable' = IF fault = "create" THEN packetTable
                             ELSE Append(packetTable, packet)
           /\ groupSent' =
                 (IF fault \in {"create", "send_packet"} THEN groupSent
                  ELSE Append(groupSent, PacketUpdate(packet)))
                 \o (IF after = "ended" THEN <<ConnectionStatus(FALSE)>>
                     ELSE <<>>)
           /\ stationTable' =
                 IF fault = "send_station"
                 THEN UpdateOrCreate(parsed.source_callsign,
                                     StationDefaults(parsed))
                 ELSE stationTable
           /\ packetLoop' = after
    /\ processed' = Append(processed, [raw_packet |-> raw_packet, at |-> clock,
                                       fault |-> fault])
    /\ clock' = clock + 1
    /\ UNCHANGED outsidePipeline

PipelineInit ==
    /\ ManagerInit
    /\ LoginOff
    /\ BroadcastOff
    /\ FramingOff
    /\ DecoderOff
    /\ PipelineOff

PipelineNext == \E raw_packet \in PipelineLines : ProcessPacket(raw_packet)

PipelineSpec == PipelineInit /\ [][PipelineNext]_vars

FaultNext ==
    \/ \E raw_packet \in PipelineLines : ProcessPacket(raw_packet)
    \/ \E raw_packet \in PipelineLines, fault \in Faults :
           ProcessPacketFails(raw_packet, fault)

FaultSpec == PipelineInit /\ [][FaultNext]_vars

(* ------------- consumers.py: consumers and the channel layer ----------- *)
\* number of events published
MaxPublish == 3
\* capacity of a channel of the channel layer: a message sent to a channel
\* that holds this many is dropped
Capacity == 2

\* self.group_name of the consumer classes (consumers.py lines 206, 314)
ConsumerClasses == {"APRSConsumer", "StationConsumer"}
GroupOf(class) == IF class = "APRSConsumer" THEN "aprs_packets" ELSE "stations"
\* the topic whose events a group carries
TopicOf(group) == IF group = "aprs_packets" THEN "packets" ELSE "stations"

\* lines 27-41, connect: accept, create the connection record, group_add
WsConnect(c, class) ==
    /\ consumer[c].state = "new"
    /\ consumer' = [consumer EXCEPT ![c] = [state |-> "open",
                                            group_name |-> GroupOf(class)]]
    /\ groups' = [groups EXCEPT ![GroupOf(class)] = @ \cup {c}]
    /\ UNCHANGED <<inbox, delivered, subscriptions, published>>
    /\ UNCHANGED outsideBroadcast

\* lines 43-51, disconnect: the record is marked inactive, group_discard;
\* what waits in the channel is read by nobody any more
WsDisconnect(c) ==
    /\ consumer[c].state = "open"
    /\ consumer' = [consumer EXCEPT ![c].state = "closed"]
    /\ groups' = [groups EXCEPT ![consumer[c].group_name] = @ \ {c}]
    /\ inbox' = [inbox EXCEPT ![c] = <<>>]
    /\ UNCHANGED <<delivered, subscriptions, published>>
    /\ UNCHANGED outsideBroadcast

\* the rows of Subscription of a connection and a subscription_type, as
\* the sequence of their filters, oldest row first
RowsOf(c, topic) == subscriptions[c][topic]

\* faulty variant: a row is created without looking for an existing one
CreateAlways(c, topic, filters) == Append(RowsOf(c, topic), filters)

\* lines 153-166, create_subscription: Subscription.objects.get_or_create(
\* connection, subscription_type, defaults={'filters': filters}), and when
\* the row existed: subscription.filters = filters; subscription.save().
\* With more than one row get() raises MultipleObjectsReturned.
GetOrCreate(c, topic, filters) ==
    IF RowsOf(c, topic) = <<>>
    THEN <<filters>>
    ELSE IF Len(RowsOf(c, topic)) > 1
    THEN RowsOf(c, topic)
    ELSE <<filters>>

\* lines 91-102, handle_subscribe
Subscribe(c, topic, filters) ==
    /\ consumer[c].state = "open"
    /\ subscriptions' = [subscriptions EXCEPT ![c][topic] = GetOrCreate(c, topic, filters)]
    /\ UNCHANGED <<consumer, groups, inbox, delivered, published>>
    /\ UNCHANGED outsideBroadcast

\* lines 168-174, remove_subscription: filter(connection, subscription_type)
\* .delete()
Remove(c, topic) == <<>>

\* lines 104-113, handle_unsubscribe
Unsubscribe(c, topic) ==
    /\ consumer[c].state = "open"
    /\ subscriptions' = [subscriptions EXCEPT ![c][topic] = Remove(c, topic)]
    /\ UNCHANGED <<consumer, groups, inbox, delivered, published>>
    /\ UNCHANGED outsideBroadcast

\* models.py lines 120-127, Subscription.matches_filter: True either way
MatchesFilter(filters) == IF filters = "{}" THEN TRUE ELSE TRUE

\* faulty variant: group_send waits for room in every channel of the group
SendWaits(g) == \A c \in groups[g] : Len(inbox[c]) < Capacity

\* group_send returns at once
SendReady(g) == TRUE

\* faulty variant: the message is put in front of those waiting
PutFirst(q, ev) == <<ev>> \o q

\* the message is put behind those waiting
PutLast(q, ev) == Append(q, ev)

\* aprs_service.py lines 205-221 and 240-258,
\* async_to_sync(channel_layer.group_send)(group, event): every channel of
\* the group with room gets the event
Publish(g) ==
    /\ Len(published) < MaxPublish
    /\ SendReady(g)
    /\ LET ev == [group |-> g, n |-> Len(published) + 1]
       IN  /\ published' = Append(published, ev)
           /\ inbox' = [c \in Consumers |->
                          IF c \in groups[g] /\ Len(inbox[c]) < Capacity
                          THEN PutLast(inbox[c], ev) ELSE inbox[c]]
    /\ UNCHANGED <<consumer, groups, delivered, subscriptions>>
    /\ UNCHANGED outsideBroadcast

\* lines 283-289 and 325-331, packet_update / station_update: the consumer
\* takes the next message of its channel and sends it to its client
Dispatch(c) ==
    /\ consumer[c].state = "open"
    /\ inbox[c] # <<>>
    /\ delivered' = [delivered EXCEPT ![c] = Append(@, Head(inbox[c]))]
    /\ inbox' = [inbox EXCEPT ![c] = Tail(@)]
    /\ UNCHANGED <<consumer, groups, subscriptions, published>>
    /\ UNCHANGED outsideBroadcast

\* the producers of station updates: the background connection service
\* and the aprs_listener management command
Producers == {"aprs_service", "aprs_listener"}

\* the group a producer hands its station updates to: aprs_service.py
\* line 242, aprs_listener.py line 306
StationGroup(producer) ==
    IF producer = "aprs_service" THEN "stations" ELSE "aprs_stations"

\* the channels of a group; a group nobody has joined has none
Members(g) == IF g \in DOMAIN groups THEN groups[g] ELSE {}

\* aprs_service.py lines 240-258 and aprs_listener.py lines 303-321,
\* group_send(<group>, {'type': 'station_update', ...}) of a producer
PublishStationUpdate(producer) ==
    /\ Len(published) < MaxPublish
    /\ LET ev == [group |-> StationGroup(producer), n |-> Len(published) + 1,
                  producer |-> producer]
       IN  /\ published' = Append(published, ev)
           /\ inbox' = [c \in Consumers |->
                          IF c \in Members(ev.group) /\ Len(inbox[c]) < Capacity
                          THEN PutLast(inbox[c], ev) ELSE inbox[c]]
    /\ UNCHANGED <<consumer, groups, delivered, subscriptions>>
    /\ UNCHANGED outsideBroadcast

BroadcastInit ==
    /\ ManagerInit
    /\ LoginOff
    /\ FramingOff
    /\ DecoderOff
    /\ PipelineOff
    /\ BroadcastOff

BroadcastNext ==
    \/ \E c \in Consumers, class \in ConsumerClasses : WsConnect(c, class)
    \/ \E c \in Consumers : WsDisconnect(c)
    \/ \E c \in Consumers, topic \in Topics, filters \in Filters :
          Subscribe(c, topic, filters)
    \/ \E c \in Consumers, topic \in Topics : Unsubscribe(c, topic)
    \/ \E g \in Groups : Publish(g)
    \/ \E c \in Consumers : Dispatch(c)

BroadcastSpec == BroadcastInit /\ [][BroadcastNext]_vars

\* the subscription table alone: connections come and go, subscribe and
\* unsubscribe
SubscriptionNext ==
    \/ \E c \in Consumers, class \in ConsumerClasses : WsConnect(c, class)
    \/ \E c \in Consumers : WsDisconnect(c)
    \/ \E c \in Consumers, topic \in Topics, filters \in Filters :
          Subscribe(c, topic, filters)
    \/ \E c \in Consumers, topic \in Topics : Unsubscribe(c, topic)

SubscriptionSpec == BroadcastInit /\ [][SubscriptionNext]_vars

\* consumers connecting and leaving while both producers publish
ProducerNext ==
    \/ \E c \in Consumers, class \in ConsumerClasses : WsConnect(c, class)
    \/ \E c \in Consumers : WsDisconnect(c)
    \/ \E producer \in Producers : PublishStationUpdate(producer)
    \/ \E c \in Consumers : Dispatch(c)

ProducerSpec == BroadcastInit /\ [][ProducerNext]_vars

(* --------------------------- specifications ---------------------------- *)
Next ==
    \/ \E s \in UserSettings : Connect(s)
    \/ DisconnectBegin
    \/ DisconnectEnd
    \/ \E w \in Workers : WorkerStep(w)

Spec == Init /\ [][Next]_vars

\* A pass of the loop that must leave it: the stop request is set, or the
\* socket cannot be read. Whether any other pass ends the loop is the
\* relay's choice.
WLoopLeaves(w) == WLoop(w) /\ (StopRequested \/ TransferError(socket))

\* the steps of a worker that the thread takes once it is scheduled: every
\* call of the start-up returns or raises within its timeout
WorkerRuns(w) ==
    \/ WStart(w)
    \/ WCreate(w)
    \/ WConnect(w)
    \/ WSend(w)
    \/ WHandshake(w)
    \/ WAnnounce(w)
    \/ WLoopLeaves(w)
    \/ WFinally(w)

\* every started thread keeps being scheduled, and the join of line 59
\* returns (the thread exited, or the 5 seconds passed)
FairSpec ==
    /\ Spec
    /\ \A w \in Workers : WF_vars(WorkerRuns(w))
    /\ WF_vars(DisconnectEnd)

(* ------------------------------- claims -------------------------------- *)
\* the session started by the latest connect() that passed the guard is
\* Connecting, LoggingIn or Connected, and no disconnect() was called since
SessionActive ==
    /\ connection_thread # NoThread
    /\ wk[connection_thread].pc \in
         {"start", "create", "connect", "send", "handshake", "announce", "loop"}
    /\ ~should_disconnect
OpenSockets == {w \in Workers : socks[w] \in {"open", "connected"}}
IsConnectedStatus(st) == st # NoStatus /\ st.connected
\* no worker thread is running and no disconnect() is in progress
IdleManager == Live = {} /\ ~is_connected /\ dpc = "idle"

\* C1: while the session started by a connect() is Connecting, LoggingIn or
\* Connected, a further connect() is a no-op: no step starts another worker,
\* and there are never two sockets open.
C1_SecondConnectIsNoOp ==
    [][SessionActive => /\ Spawned' = Spawned
                        /\ Cardinality(OpenSockets') <= 1]_vars

\* C2: at most one worker is inside the packet read-loop at any time.
C2_OneWorkerInReadLoop == Cardinality({w \in Workers : InLoop(w)}) <= 1

\* C3: the worker of a connect() that was given an absent or empty callsign,
\* NOCALL in any letter case, or a passcode that is not a positive integer
\* opens no socket, never sets is_connected, and the status it sends is
\* connected=false with a reason.
C3_InvalidCredentialsRejected ==
    [][\A w \in Workers :
          wk[w].args = "invalid" =>
              /\ socks'[w] = "none"
              /\ wk'[w].pc \notin {"announce", "loop"}
              /\ wk'[w].pc = "finally" => wk'[w].sent = "reason"]_vars

\* C4: when no session is active (no worker is running) the most recent
\* status message is not connected=true.
C4_LastStatusFalseWhenNoSession == Live = {} => ~IsConnectedStatus(status)

\* C5: a worker that ends with a socket connect failure, a login failure or a
\* socket error inside the read-loop has sent, as its last status message,
\* connected=false with a non-empty reason.
C5_FailuresReported ==
    \A w \in Workers :
        (wk[w].pc = "finally"
         /\ wk[w].cause \in {"connect_failed", "login_failed", "sock_error"})
        => wk[w].sent = "reason"

\* disconnect() has set the stop request and closed the socket, and waits
\* for worker w, which is in the read-loop
Disconnecting(w) ==
    /\ dpc = "join"
    /\ should_disconnect
    /\ connection_thread = w
    /\ InLoop(w)

\* C6: a disconnect() called while a worker is in the read-loop makes that
\* worker leave the loop, and a worker leaving the loop sends no status
\* message with an error reason.
C6_DisconnectEndsLoopCleanly ==
    /\ \A w \in Workers : Disconnecting(w) ~> ~InLoop(w)
    /\ [][\A w \in Workers :
            InLoop(w) => /\ wk'[w].pc \in {"loop", "finally"}
                         /\ wk'[w].sent = "connected"]_vars

\* C7: disconnect() on a manager with no session (never connected, or
\* Disconnected again) returns at once, starts no worker, opens and closes no
\* socket, sends no status message and leaves the manager without a session;
\* a connect() with valid credentials made then starts exactly one worker,
\* with the stop request cleared and the settings stored.
C7_IdleDisconnectIsNoOp ==
    [][/\ (IdleManager /\ DisconnectBegin) =>
            /\ IdleManager'
            /\ UNCHANGED <<wk, socks, socket, connection_thread, status, opened>>
       /\ (IdleManager /\ Connect(ValidSettings)) =>
            /\ Cardinality(Live') = 1
            /\ wk'[connection_thread'].pc = "start"
            /\ ~should_disconnect'
            /\ current_settings' = ValidSettings]_vars
\* disconnect() has run on a manager that never connected
C7_Witness ==
    should_disconnect /\ Spawned = {} /\ dpc = "idle" /\ current_settings = None

\* C8: no more sockets have been opened than connect() calls started a
\* worker, and only a started worker has a socket: nothing is retried.
C8_NoAutomaticRetry ==
    /\ opened <= Cardinality(Spawned)
    /\ \A w \in Workers : socks[w] # "none" => w \in Spawned
\* a session that opened a socket has failed and no worker is running
C8_Witness ==
    /\ Live = {}
    /\ opened >= 1
    /\ status # NoStatus /\ ~status.connected

\* C9: a worker whose first recv of the handshake timed out fails the login:
\* it does not set is_connected, does not enter the read-loop, and has sent
\* connected=false.
C9_SilentRelayFailsLogin ==
    \A w \in Workers :
        wk[w].first = "timeout" =>
            /\ wk[w].pc = "finally"
            /\ wk[w].cause = "login_failed"
            /\ wk[w].sent = "reason"
C9_Witness == \E w \in Workers : wk[w].first = "timeout"

\* C10: a login accepted without an acknowledgment has received at least one
\* non-empty line.
C10_LenientNeedsNonEmptyLine ==
    \A w \in Workers :
        (wk[w].pc = "announce" /\ wk[w].login = "assumed") => wk[w].heard = "text"

\* C11: a worker enters the read-loop only after a successful login (an
\* acknowledgment, or at least one non-empty line received), and the
\* connected=true status has been sent by then, before any packet of the
\* session is read.
C11_LoopOnlyAfterLogin ==
    [][\A w \in Workers :
          (~InLoop(w) /\ wk'[w].pc = "loop") =>
              /\ \/ wk[w].login = "ack"
                 \/ wk[w].login = "assumed" /\ wk[w].heard = "text"
              /\ wk'[w].sent = "connected"
              /\ IsConnectedStatus(status')]_vars

\* the newline-terminated lines of a text, trimmed, in order, without the
\* empty ones and those beginning with '#'
LinesOf(text) ==
    LET ends  == {i \in DOMAIN text : text[i] = "\n"}
        nth(k) == CHOOSE i \in ends : Cardinality({j \in ends : j < i}) = k - 1
        from(k) == IF k = 1 THEN 1 ELSE nth(k - 1) + 1
        all   == [k \in 1..Cardinality(ends) |->
                     Strip(SubSeq(text, from(k), nth(k) - 1))]
    IN  SelectSeq(all, IsPacketLine)

\* C12: however the stream is divided into receives, the lines handed to
\* the decoder are the newline-terminated lines of what has been received,
\* trimmed, in order, without empty lines and lines beginning with '#'; a
\* partial line is not handed over before its newline.
C12_FramingIgnoresChunking == handed = LinesOf(Decode(received))

\* C19: for a line without '>' or without ':' the decoder returns the error
\* result with a diagnostic, and for every line it returns: no exception
\* leaves parse_packet.
C19_DecoderNeverRaises ==
    decoderOut # Pending =>
        /\ ~decoderOut.raised
        /\ (IndexOf(decoderIn, ">") = 0 \/ IndexOf(decoderIn, ":") = 0) =>
              /\ "error" \in DOMAIN decoderOut.value
              /\ decoderOut.value.error # ""
\* a line with '>' and without ':' has been decoded
C19_Witness ==
    /\ decoderOut # Pending
    /\ IndexOf(decoderIn, ">") > 0
    /\ IndexOf(decoderIn, ":") = 0

\* C20: a message ':ADDRESSEE :text{NNN', with or without a closing '}',
\* decodes to the trimmed addressee, the text and the message number NNN,
\* is_ack telling whether the text is 'ack'.
C20_MessageNumberDecoded ==
    \A m \in MessageCases :
        (decoderIn = MessageLine(m) /\ decoderOut # Pending) =>
            /\ ~decoderOut.raised
            /\ decoderOut.value.addressee = Strip(m.addressee)
            /\ decoderOut.value.message = m.text
            /\ decoderOut.value.message_number = PyStr(m.number)
            /\ decoderOut.value.is_ack = (Lower(m.text) = T_ack)

\* the raw lines of the packet_update messages sent to 'aprs_packets'
PacketsPublished ==
    LET updates == SelectSeq(groupSent, LAMBDA m : m.type = "packet_update")
    IN  [i \in DOMAIN updates |-> updates[i].packet.raw_packet]

\* C13: every line handed to the decoder, whatever it decodes to (position,
\* weather, message, status or unknown), is published exactly once on the
\* packets topic, in order.
C13_EveryPacketPublishedOnce ==
    PacketsPublished = [i \in DOMAIN processed |-> processed[i].raw_packet]

\* the decoded line i of those processed is a position packet of callsign
IsPositionOf(i, callsign) ==
    LET parsed == parse_packet(processed[i].raw_packet).value
    IN  /\ "error" \notin DOMAIN parsed
        /\ parsed.packet_type = "position"
        /\ parsed.source_callsign = callsign

\* C18: there is at most one station per source identity, and after a
\* position packet of an identity its station holds the last-heard time of
\* the most recent position packet of that identity and the coordinates,
\* symbol and comment decoded from it.
C18_OneStationLastWriterWins ==
    \A i \in DOMAIN processed :
        LET parsed   == parse_packet(processed[i].raw_packet).value
            callsign == parsed.source_callsign
        IN  (/\ "error" \notin DOMAIN parsed
             /\ IsPositionOf(i, callsign)
             /\ \A j \in DOMAIN processed : j > i => ~IsPositionOf(j, callsign))
            => /\ Cardinality(StationsOf(callsign)) = 1
               /\ \A s \in StationsOf(callsign) :
                     /\ s.last_heard = processed[i].at
                     /\ "latitude" \in DOMAIN parsed =>
                           /\ s.latitude = parsed.latitude
                           /\ s.longitude = parsed.longitude
                           /\ s.symbol_table = parsed.symbol_table
                           /\ s.symbol_code = parsed.symbol_code
                           /\ s.last_comment = Get(parsed, "comment", <<>>)

\* the other rows of the table are left alone
OnlyRowsOf(c, topic) ==
    \A d \in Consumers, other \in Topics :
        (d # c \/ other # topic) => subscriptions'[d][other] = subscriptions[d][other]

\* C15: after any sequence of subscribe and unsubscribe calls a connection
\* holds at most one subscription per topic; subscribe on a topic replaces
\* the stored filter by the new one (or stores it), and unsubscribe removes
\* the subscription of that topic only.
C15_OneSubscriptionPerTopic ==
    [][/\ \A c \in Consumers, topic \in Topics : Len(subscriptions'[c][topic]) <= 1
       /\ \A c \in Consumers, topic \in Topics, filters \in Filters :
             Subscribe(c, topic, filters) =>
                 subscriptions'[c][topic] = <<filters>> /\ OnlyRowsOf(c, topic)
       /\ \A c \in Consumers, topic \in Topics :
             Unsubscribe(c, topic) =>
                 subscriptions'[c][topic] = <<>> /\ OnlyRowsOf(c, topic)]_vars

\* a connection holds a subscription with a filter for one topic and one
\* with the empty filter for the other, and another connection holds one
C15_Witness ==
    /\ consumer["c1"].state = "open"
    /\ subscriptions["c1"]["packets"] = <<"{callsigns}">>
    /\ subscriptions["c1"]["stations"] = <<"{}">>
    /\ subscriptions["c2"]["packets"] = <<"{}">>
    /\ subscriptions["c2"]["stations"] = <<>>

\* the connection holds a subscription of the topic whose filter matches
Subscribed(c, topic) ==
    \E i \in 1..Len(RowsOf(c, topic)) : MatchesFilter(RowsOf(c, topic)[i])

\* the step schedules an event for the connection
Scheduled(c) == Len(inbox'[c]) > Len(inbox[c])

\* C14: publish(topic, event) delivers the event to a connection if and
\* only if the connection holds at that moment a subscription of the topic
\* whose filter matches; a connection that never subscribed to the topic or
\* has unsubscribed from it receives no event of the topic.  (A connection
\* whose channel is full is left out of the "if" half.)
C14_DeliveredIffSubscribed ==
    [][\A g \in Groups, c \in Consumers :
          Publish(g) =>
              /\ Scheduled(c) => Subscribed(c, TopicOf(g))
              /\ (/\ Subscribed(c, TopicOf(g))
                  /\ consumer[c].state = "open"
                  /\ Len(inbox[c]) < Capacity) => Scheduled(c)]_vars

C21_AckFlag ==
    \A a \in AckCases, tail \in AckTails :
        (decoderIn = AckLine(a.text, tail) /\ decoderOut # Pending) =>
            /\ ~decoderOut.raised
            /\ decoderOut.value.packet_type = "message"
            /\ decoderOut.value.is_ack = a.ack

\* ' Ack ' followed by a message number has been decoded
C21_Witness ==
    /\ decoderIn = AckLine(<<" ", "A", "c", "k", " ">>, <<"{">> \o T_001 \o <<"}">>)
    /\ decoderOut # Pending
    /\ decoderOut.value.is_ack

\* C22: the weather line
\* 'N0WX-3>APZ001,WIDE2-1:_23844728c054s000g005t072r000p000P000b10020h50'
\* decodes to a weather packet with temperature 72 and humidity 50.
C22_WeatherReportDecoded ==
    (decoderIn = WeatherReport /\ decoderOut # Pending) =>
        /\ ~decoderOut.raised
        /\ decoderOut.value.packet_type = "weather"
        /\ "temperature" \in DOMAIN decoderOut.value
        /\ "humidity" \in DOMAIN decoderOut.value
        /\ decoderOut.value.temperature = 72
        /\ decoderOut.value.humidity = 50

\* the distance of two integers
Distance(a, b) == IF a < b THEN b - a ELSE a - b

\* C23: a well-formed position decodes latitude as degrees plus minutes/60,
\* negative exactly for hemisphere S, longitude likewise, negative exactly
\* for W, the symbol table from offset 8, the symbol code from offset 18 and
\* the comment from offset 19 on; 'KD8ABC-9>APZ001,WIDE1-1:=4042.77N/
\* 07400.36W>Test' gives latitude about 40.7128 and longitude about -74.0067
\* (within 1e-3), symbol table '/', symbol code '>', comment 'Test'.
\* (Coordinates are counted in hundredths of a minute, 6000 to the degree.)
C23_PositionDecoded ==
    /\ \A p \in PositionCases :
          (decoderIn = PositionLine(p) /\ decoderOut # Pending) =>
              /\ ~decoderOut.raised
              /\ decoderOut.value.packet_type = "position"
              /\ decoderOut.value.latitude =
                    (IF p.ns = "S" THEN -1 ELSE 1) * (6000 * p.latDeg + p.latMin)
              /\ decoderOut.value.longitude =
                    (IF p.ew = "W" THEN -1 ELSE 1) * (6000 * p.lonDeg + p.lonMin)
              /\ decoderOut.value.latitude < 0 <=> p.ns = "S"
              /\ decoderOut.value.longitude < 0 <=> p.ew = "W"
              /\ decoderOut.value.symbol_table = "/"
              /\ decoderOut.value.symbol_code = p.code
              /\ IF p.comment = <<>> THEN "comment" \notin DOMAIN decoderOut.value
                 ELSE decoderOut.value.comment = p.comment
    /\ (decoderIn = PositionReport /\ decoderOut # Pending) =>
          /\ ~decoderOut.raised
          /\ decoderOut.value.packet_type = "position"
          /\ decoderOut.value.latitude = 6000 * 40 + 4277
          /\ decoderOut.value.longitude = -(6000 * 74 + 36)
          \* in tenths of a unit: 40.7128 deg = 2442768, 74.0067 deg =
          \* 4440402, 1e-3 deg = 60
          /\ Distance(10 * decoderOut.value.latitude, 2442768) <= 60
          /\ Distance(10 * decoderOut.value.longitude, -4440402) <= 60
          /\ decoderOut.value.symbol_table = "/"
          /\ decoderOut.value.symbol_code = ">"
          /\ decoderOut.value.comment = <<"T", "e", "s", "t">>

\* the position line of the claim has been decoded, to a western longitude
C23_Witness ==
    /\ decoderIn = PositionReport
    /\ decoderOut # Pending
    /\ decoderOut.value.longitude < 0

\* C24: a worker only reads from, writes to and closes the socket it opened
\* itself: no socket is used by two workers, and a worker that exits late,
\* after a disconnect() gave up waiting for it and a new connect() started
\* another session, neither reads from nor closes the socket of the new
\* session.
C24_WorkerUsesOwnSocket ==
    [][\A w \in Workers :
          /\ (WConnect(w) \/ WSend(w) \/ WHandshake(w)) => socket = w
          /\ (WLoop(w) /\ ~StopRequested) => socket = w
          /\ WFinally(w) =>
                \A t \in Workers \ {w} : socks'[t] = socks[t]]_vars

\* disconnect() has been called on the session of worker w, which is still
\* starting up, and no connect() has followed
StoppedInStartUp(w) ==
    /\ should_disconnect
    /\ connection_thread = w
    /\ wk[w].pc \in {"start", "create", "connect", "send", "handshake", "announce"}

\* the step makes worker w send connected=false with an error, and not for
\* a reason of its own (a key missing in its settings, credentials rejected,
\* connect refused by the relay, a relay that stays silent or answers
\* without a login)
FailureFromDisconnect(w) ==
    /\ wk'[w].sent \in {"reason", "blank"}
    /\ wk'[w].cause \notin {"rejected", "connect_failed"}
    /\ wk'[w].cause = "exception" => current_settings = None
    /\ wk'[w].cause = "login_failed" => wk'[w].first = "error"

\* C25: a disconnect() issued during the start-up of a session (before the
\* worker has read its settings, while it opens the socket, during the
\* handshake) is not reported as a failure: no connected=false status with
\* an error results from it, and no connected=true status is sent after
\* disconnect() has returned.
C25_DisconnectInStartUpIsClean ==
    [][\A w \in Workers :
          StoppedInStartUp(w) =>
              /\ ~FailureFromDisconnect(w)
              /\ dpc = "idle" => wk'[w].sent # "connected"]_vars

\* C26: after disconnect() is called on a live session, the worker of the
\* session eventually leaves the read-loop and exits, under fair scheduling
\* of the worker, also when connect() is called again before the worker has
\* seen the stop request.
C26_WorkerExitsAfterDisconnect ==
    \A w \in Workers : Disconnecting(w) ~> wk[w].pc = "done"

\* C27: disconnect() always returns: its wait for the worker is bounded, so
\* it completes even when the worker never exits, and when it returns
\* is_connected is false and the stored settings are cleared.
C27_DisconnectReturns ==
    /\ dpc = "join" ~> dpc = "idle"
    /\ [](dpc = "join" => ENABLED DisconnectEnd)
    /\ [][(dpc' = "idle" /\ (DisconnectBegin \/ DisconnectEnd)) =>
             (~is_connected' /\ current_settings' = None)]_vars

\* disconnect() has returned and the worker it waited for is still running
C27_Witness ==
    /\ dpc = "idle"
    /\ should_disconnect
    /\ connection_thread # NoThread
    /\ Alive(connection_thread)
    /\ ~is_connected
    /\ current_settings = None

\* C28: whenever a worker exits, for whatever reason, is_connected is false
\* and the socket the worker used is closed; the end of the stream and a
\* socket error both end the read-loop.
C28_ExitLeavesDisconnected ==
    [][\A w \in Workers :
          /\ WFinally(w) =>
                /\ ~is_connected'
                /\ socks'[w] \in {"none", "closed"}
          /\ (InLoop(w) /\ wk'[w].cause \in {"eof", "sock_error"}) =>
                wk'[w].pc = "finally"]_vars

\* C29: a connect() call made while the manager is connected changes
\* nothing: no worker is started and the settings, the stop request, the
\* worker handle and the socket of the running session stay as they are;
\* every connect() call that passes the guard starts exactly one worker and
\* returns without a network step (no socket opened, no status sent).
C29_ConnectGuardAndSpawn ==
    [][\A s \in UserSettings :
          Connect(s) =>
              IF is_connected
              THEN UNCHANGED <<current_settings, should_disconnect, connection_thread,
                               socket, socks, wk, is_connected, status, opened>>
              ELSE /\ Cardinality(Spawned') = Cardinality(Spawned) + 1
                   /\ Live' = Live \cup {connection_thread'}
                   /\ connection_thread' \notin Spawned
                   /\ wk'[connection_thread'].pc = "start"
                   /\ \A w \in Workers \ {connection_thread'} : wk'[w] = wk[w]
                   /\ current_settings' = s
                   /\ ~should_disconnect'
                   /\ UNCHANGED <<socket, socks, opened, status, is_connected>>]_vars

\* a session is connected, its worker in the read-loop, and a further
\* connect() call can be made
C29_Witness ==
    /\ is_connected
    /\ Cardinality(Spawned) < MaxConnects
    /\ connection_thread # NoThread
    /\ InLoop(connection_thread)
    /\ ENABLED Connect(ValidSettings)

\* the step is a read of self.socket by worker w: a recv of the handshake or
\* of the read-loop on a socket that can be read
ReadsSocket(w) ==
    /\ wk[w].pc \in {"handshake", "loop"}
    /\ ~TransferError(socket)
    /\ WHandshake(w) \/ (WLoop(w) /\ ~StopRequested)

\* C30: for each socket the login line is written exactly once, before any
\* read from that socket, and nothing else is written to it, in every
\* interleaving of connect(), disconnect() and worker steps.
C30_LoginWrittenOnce ==
    /\ [](\A t \in Workers : written[t] <= 1)
    /\ [][\A w \in Workers : ReadsSocket(w) => written[socket] = 1]_vars

\* the line has a header with '>' and, after it, the separator ':'
ValidFraming(line) ==
    /\ IndexOf(line, ">") > 0
    /\ IndexOf(line, ":") > IndexOf(line, ">")

\* the variant the first character of INFO stands for
VariantOf(info) ==
    IF info = <<>> THEN "other"
    ELSE CASE info[1] \in {"!", "="} -> "position"
           [] info[1] = "_" -> "weather"
           [] info[1] = ">" -> "status"
           [] info[1] = ":" -> "message"
           [] OTHER -> "other"

\* C34: for a line with valid framing the variant is determined by the
\* first character of INFO alone: '!' or '=' Position, '_' Weather, '>'
\* Status with the remainder as status text, ':' Message, any other first
\* character or an empty INFO Unknown with an empty payload; the source
\* identity is the text of the header before its first '>'.
C34_VariantByFirstCharacter ==
    (decoderOut # Pending /\ ValidFraming(decoderIn)) =>
        LET info == SubSeq(decoderIn, IndexOf(decoderIn, ":") + 1, Len(decoderIn))
        IN  /\ ~decoderOut.raised
            /\ decoderOut.value.packet_type = VariantOf(info)
            /\ decoderOut.value.source_callsign =
                  SubSeq(decoderIn, 1, IndexOf(decoderIn, ">") - 1)
            /\ VariantOf(info) = "status" =>
                  decoderOut.value.status = SubSeq(info, 2, Len(info))
            /\ VariantOf(info) = "other" =>
                  DOMAIN decoderOut.value =
                      {"source_callsign", "raw_packet", "info", "packet_type"}

\* a status line with text and a line with another first character have
\* been decoded
C34_Witness ==
    /\ decoderOut # Pending
    /\ \/ decoderIn = Header \o <<">", "h", "i">>
       \/ decoderIn = Header \o <<"?">>

\* INFO of a line with valid framing
InfoOf(line) == SubSeq(line, IndexOf(line, ":") + 1, Len(line))

\* the slash-separated fields of a weather INFO
FieldsOf(info) == Split(SubSeq(info, 2, Len(info)), "/")

\* field i of the weather INFO (counted from 0) exists and is all-digit
NumericField(info, i) ==
    /\ Len(FieldsOf(info)) >= i + 1
    /\ IsDigit(FieldsOf(info)[i + 1])

\* part k (1 before, 2 after the 'g') of field[2] exists and is all-digit
NumericWind(info, k) ==
    /\ Len(FieldsOf(info)) >= 3
    /\ IndexOf(FieldsOf(info)[3], "g") > 0
    /\ IsDigit(Split(FieldsOf(info)[3], "g")[k])

\* C35: for every weather INFO the decoder returns a Weather packet
\* without raising, and each field is present exactly when its
\* slash-separated source field exists and is all-digit, independently of
\* the other fields: wind direction from field[1], temperature from
\* field[3], 1-hour rainfall from field[4], pressure from field[5],
\* humidity from field[6], wind speed and gust from the digit parts of
\* field[2] around 'g'.
C35_WeatherFieldsIndependent ==
    (/\ decoderOut # Pending
     /\ ValidFraming(decoderIn)
     /\ StartsWith(InfoOf(decoderIn), "_")) =>
        LET info == InfoOf(decoderIn)
            has(name) == name \in DOMAIN decoderOut.value
        IN  /\ ~decoderOut.raised
            /\ decoderOut.value.packet_type = "weather"
            /\ has("wind_direction") <=> NumericField(info, 1)
            /\ has("temperature") <=> NumericField(info, 3)
            /\ has("rainfall_1h") <=> NumericField(info, 4)
            /\ has("pressure") <=> NumericField(info, 5)
            /\ has("humidity") <=> NumericField(info, 6)
            /\ has("wind_speed") <=> NumericWind(info, 1)
            /\ has("wind_gust") <=> NumericWind(info, 2)

\* the four texts float() is applied to are numbers
NumericCoordinates(data) ==
    /\ FloatParses(SubSeq(data, 1, 2))
    /\ FloatParses(SubSeq(data, 3, 7))
    /\ FloatParses(SubSeq(data, 10, 12))
    /\ FloatParses(SubSeq(data, 13, 17))

\* C36: for every INFO beginning with '!' or '=' the decoder returns a
\* Position packet and never raises; when fewer than 19 characters follow
\* the marker or the coordinate digits are not numeric the payload has what
\* was extracted, and latitude and longitude are both present or both
\* absent (present exactly when the body is long enough and numeric).
C36_PositionNeverRaises ==
    (/\ decoderOut # Pending
     /\ ValidFraming(decoderIn)
     /\ InfoOf(decoderIn) # <<>>
     /\ InfoOf(decoderIn)[1] \in {"!", "="}) =>
        LET data == SubSeq(InfoOf(decoderIn), 2, Len(InfoOf(decoderIn)))
            has(name) == name \in DOMAIN decoderOut.value
        IN  /\ ~decoderOut.raised
            /\ ~has("error")
            /\ decoderOut.value.packet_type = "position"
            /\ has("latitude") <=> has("longitude")
            /\ has("latitude") <=> (Len(data) >= 19 /\ NumericCoordinates(data))
            /\ has("symbol_code") => has("latitude")

\* a position with a latitude that is not a number, and one that is too
\* short, have been decoded
C36_Witness ==
    /\ decoderOut # Pending
    /\ \/ decoderIn = Header \o <<"!">> \o <<"4", "X", "4", "2", ".", "7", "7", "N", "/", "0", "7", "4", "0", "0", ".", "3", "6", "W", ">">>
       \/ decoderIn = Header \o <<"=">> \o <<"4", "0", "4", "2">>

\* line i of those processed met a failure: the decoder refused it, or a
\* call of the store or of the channel layer raised
FailedLine(i) ==
    \/ "fault" \in DOMAIN processed[i]
    \/ "error" \in DOMAIN parse_packet(processed[i].raw_packet).value

\* C31: a failure while handling one line (a line the decoder refuses, a
\* failure of the store, a failure of delivery) never ends the read loop
\* and never produces a connection-status event: the loop keeps running and
\* the next line is processed.
C31_FailureKeepsLoopRunning ==
    /\ packetLoop = "running"
    /\ \A i \in DOMAIN groupSent : groupSent[i].type # "connection_status"
    /\ Len(processed) < MaxPackets =>
          ENABLED (\E raw_packet \in PipelineLines : ProcessPacket(raw_packet))

\* a failure of the store, one of delivery and a refused line have been
\* met, one after the other
C31_Witness ==
    /\ Len(processed) = 3
    /\ "fault" \in DOMAIN processed[1] /\ processed[1].fault = "create"
    /\ "fault" \in DOMAIN processed[2] /\ processed[2].fault = "send_packet"
    /\ FailedLine(3) /\ "fault" \notin DOMAIN processed[3]

\* C32: a delivery failure while publishing a position packet on the
\* packets topic does not change what is done next for that packet: the
\* station of its source identity is created or updated (it is last heard
\* at that packet or later) and the station update is published on the
\* stations topic.
C32_DeliveryFailureKeepsStation ==
    \A i \in DOMAIN processed :
        LET parsed == parse_packet(processed[i].raw_packet).value
        IN  (/\ "fault" \in DOMAIN processed[i]
             /\ processed[i].fault = "send_packet"
             /\ UpdatesStation(parsed)) =>
                /\ \E s \in StationsOf(parsed.source_callsign) :
                      s.last_heard >= processed[i].at
                /\ Cardinality({j \in DOMAIN groupSent :
                                   groupSent[j].type = "station_update"})
                     >= Cardinality({j \in 1..i :
                                       UpdatesStation(parse_packet(
                                           processed[j].raw_packet).value)})

\* the decoded line i of those processed is a Position packet
IsPosition(i) ==
    Get(parse_packet(processed[i].raw_packet).value, "packet_type", "error")
        = "position"

\* the station updates sent to 'stations', in order
StationUpdates == SelectSeq(groupSent, LAMBDA m : m.type = "station_update")

\* C33: for every packet decoded as Position, one with a body too short or
\* malformed included, the station of its source identity is created or
\* updated and exactly one station update is published on the stations
\* topic; packets of any other variant never create, change or publish a
\* station.
C33_EveryPositionUpdatesStation ==
    LET positions == {i \in DOMAIN processed : IsPosition(i)}
    IN  /\ Len(StationUpdates) = Cardinality(positions)
        /\ \A i \in positions :
              StationsOf(parse_packet(processed[i].raw_packet).value
                             .source_callsign) # {}
        /\ positions = {} => stationTable = {}

\* int(s) of a decimal numeral with an optional '-'
ParseInt(s) == IF s[1] = "-" THEN -IntOf(Tail(s)) ELSE IntOf(s)

\* the settings supply a location with coordinates and a distance range
\* (an empty location, a range of None or of 0 count as not supplied)
RangeSupplied(s) ==
    LET range == Get(Get(s, "aprsIsFilters", EmptyDict), "distanceRange", None)
    IN  /\ "latitude" \in DOMAIN s.location
        /\ "longitude" \in DOMAIN s.location
        /\ range.py = "int"
        /\ range.i > 0

\* C37: the login line carries the clause ' filter r/<lat>/<lon>/<radius>'
\* exactly when both a location and a distance range are supplied in the
\* settings, built from those three values; otherwise it has no filter
\* clause; in both cases it ends with CRLF (and begins with 'user
\* <callsign> pass <passcode> vers APRSwx 1.0').
C37_FilterClauseIffSupplied ==
    loginOut # Pending =>
        LET text  == loginOut.text
            n     == Len(text)
            words == Split(SubSeq(text, 1, n - 2), " ")
            fields == Split(words[9], "/")
        IN  /\ n >= 2
            /\ SubSeq(text, n - 1, n) = <<"\r", "\n">>
            /\ IndexOf(SubSeq(text, 1, n - 2), "\r") = 0
            /\ IndexOf(SubSeq(text, 1, n - 2), "\n") = 0
            /\ Len(words) >= 7
            /\ SubSeq(words, 1, 7) =
                  << <<"u", "s", "e", "r">>, loginIn.callsign,
                     <<"p", "a", "s", "s">>, Str(loginIn.passcode.i),
                     <<"v", "e", "r", "s">>,
                     <<"A", "P", "R", "S", "w", "x">>, <<"1", ".", "0">> >>
            /\ ~RangeSupplied(loginIn) => Len(words) = 7
            /\ RangeSupplied(loginIn) =>
                  /\ Len(words) = 9
                  /\ words[8] = <<"f", "i", "l", "t", "e", "r">>
                  /\ Len(fields) = 4
                  /\ fields[1] = <<"r">>
                  /\ ParseInt(fields[2]) = loginIn.location.latitude
                  /\ ParseInt(fields[3]) = loginIn.location.longitude
                  /\ ParseInt(fields[4]) = loginIn.aprsIsFilters.distanceRange.i

\* a login line with a filter clause for a western longitude has been built
C37_Witness ==
    /\ loginOut # Pending
    /\ RangeSupplied(loginIn)
    /\ loginIn.location = Location

\* the connection is a client of the stations endpoint
AtStationsEndpoint(c) ==
    /\ consumer[c].state = "open"
    /\ consumer[c].group_name = GroupOf("StationConsumer")

\* C38: every station update published by either producer (the connection
\* service, the aprs_listener command) is scheduled for every client
\* connected to the stations endpoint at that moment whose channel has
\* room: the group the producer publishes to is the group the station
\* consumer joined.
C38_StationUpdatesReachStationClients ==
    [][\A producer \in Producers, c \in Consumers :
          (/\ PublishStationUpdate(producer)
           /\ AtStationsEndpoint(c)
           /\ Len(inbox[c]) < Capacity) => Scheduled(c)]_vars

\* the settings the worker reads name the guest callsign 'N0CALL'
GuestSettings ==
    /\ current_settings # None
    /\ "callsign" \in DOMAIN current_settings
    /\ current_settings.callsign = CS_N0CALL

\* C39: connect() with the default guest callsign 'N0CALL' is rejected
\* whatever the passcode: the worker that reads it leaves for its finally
\* block, no socket is opened and no session becomes Connected under that
\* identity.
C39_GuestCallsignRejected ==
    [][\A w \in Workers :
          /\ (WStart(w) /\ GuestSettings) => wk'[w].pc = "finally"
          /\ wk[w].callsign = CS_N0CALL =>
                /\ socks'[w] = "none"
                /\ wk'[w].pc \notin {"announce", "loop"}]_vars

====
